---------------------------- MODULE Spec2Model ----------------------------
(***************************************************************************)
(* Model of the usage acquisition pipeline of copilot-tracker:             *)
(*   - PollingState (main.rs) and the polling loop (usage.rs),             *)
(*   - the hidden-webview event bridge and perform_extraction (auth.rs),   *)
(*   - the script injected into the hidden window (auth.rs),               *)
(*   - StoreManager (store.rs) and the commands that drive it (main.rs),   *)
(*   - the usage summary and the prediction (usage.rs),                    *)
(*   - the digit renderer of the tray icon (tray_icon_renderer.rs).        *)
(* Each part is explored by its own specifications: SpecPolling (the       *)
(* Scheduler and its loops), SpecExtract and SpecEvents (the bridge and    *)
(* the orchestrator), SpecScript (the injected script), SpecStore,         *)
(* SpecStoreSeq, SpecHistory, SpecHistoryNoFault, SpecFetch, SpecSnapshot  *)
(* and SpecLoad (the Store and fetch_usage), SpecPredict and SpecRender    *)
(* (the two pure functions, applied once to each input).  Two more follow  *)
(* a fetch through the parts: SpecLogout (an attempt, its fetch_usage and  *)
(* a logout or a reset) and SpecCancel (a loop, the attempt of its fetch   *)
(* and a cancellation, with the fairness of the runtime).  An Option<T>    *)
(* is a sequence: None is <<>>, Some(x) is <<x>>.                          *)
(***************************************************************************)
EXTENDS Integers, Sequences, FiniteSets, TLC

None == << >>
Some(x) == << x >>

-----------------------------------------------------------------------------
(* Bounds of the exploration *)

\* threads that call restart_polling / stop_polling / logout concurrently
NumThreads == 2
\* polling loops spawned in one behaviour
MaxLoops == 3
\* last instant of the clock, in milliseconds
MaxTime == 750
\* granularity of the clock, in milliseconds
TimeStep == 250

\* concurrent callers of the Store's multi-step operations
NumCallers == 2
\* longest usage history (entries) and longest usage table (rows)
MaxHist == 2

\* extraction attempts (perform_extraction calls) in one behaviour
NumAttempts == 2
\* concurrent invocations of the hidden_webview_event command
NumPushers == 1
\* hidden_webview_event invocations in one behaviour, when they carry the script's events
MaxPushes == 4

\* largest usage counter and limit of the figures a snapshot is built from
MaxFigure == 3

\* longest history handed to predict_usage_from_history
MaxPredictHist == 8

\* longest text rendered, and largest canvas (size_px)
MaxTextLen == 3
MaxCanvas == 4

Threads == 1 .. NumThreads
Attempts == 1 .. NumAttempts
Pushers == 1 .. NumPushers
Loops == 1 .. MaxLoops
Callers == 1 .. NumCallers
\* the caller and the thread that issue commands one after the other in SpecStore
SeqCallers == {1}
SeqThreads == {1}
\* the attempt that runs alone in SpecEvents, SpecLogout and SpecCancel
SeqAttempts == {1}

\* refresh_interval values a menu item or a stored settings file can carry
RefreshValues == {0, 5, 60}
\* customer ids, usage counters and limits the extraction can report
CustomerIds == {1}
UsedValues == {0, 5}
LimitValues == {0, 1200}
\* the date strings of usage-table rows: RFC 3339, GitHub's "<date> 00:00:00 +0000 UTC",
\* and one that parses as neither
Dates == {"2024-03-01T00:00:00Z", "2024-02-01 00:00:00 +0000 UTC", "n/a"}
\* values of chrono::Utc::now().timestamp(), in days since 2024-01-01
NowValues == {45}

-----------------------------------------------------------------------------
(* Program constants *)

POLLING_RESTART_DEBOUNCE_MS == 500
\* mpsc::channel::<HiddenWebviewEvent>(10)
ChannelCapacity == 10
MinInterval == 10
DefaultUsageLimit == 1200
DefaultRefreshInterval == 60
\* bytes of a pixel: rgba.chunks_exact_mut(4)
BytesPerPixel == 4
\* the significand of an f32, in bits (`used as f32`)
F32MantissaBits == 24
\* (excess_requests as f64) * 0.04, in cents per request
PricePerRequestCents == 4

-----------------------------------------------------------------------------
VARIABLES
    \* ---- PollingState (main.rs) ----
    is_shutting_down,   \* PollingState.is_shutting_down
    cancel_tx,          \* PollingState.cancel_tx: None or Some(loop whose sender it is)
    last_restart,       \* PollingState.last_restart (ms)
    last_interval,      \* PollingState.last_interval
    now,                \* the monotonic clock read by Instant::now() (ms)
    thrPc,              \* position of each calling thread
    thrArg,             \* interval_seconds of the restart_polling call in progress
    thrOp,              \* the command the thread is running
    \* ---- polling loop tasks (usage.rs start_polling) ----
    loopPc,             \* "unspawned" | "spawned" | "select" | "fetching" | "exited"
    loopInterval,       \* interval_seconds the loop was started with
    cancelBuf,          \* messages in the loop's 1-capacity cancellation channel
    cancelTxAlive,      \* the loop's cancellation sender has not been dropped
    tickDue,            \* a full period of the loop's interval has elapsed and its
                        \* tick has not been taken
    \* ---- StoreManager (store.rs) ----
    settings,           \* StoreManager.settings (in memory)
    settings_file,      \* settings.json: None (absent) or Some(content)
    usage_cache,        \* StoreManager.usage_cache
    usage_history,      \* StoreManager.usage_history (in memory)
    history_file,       \* usage_history.json: None (absent) or Some(content)
    scPc,               \* position of each caller of a multi-step Store operation
    scArg,              \* the history that caller is about to store or write
    ret,                \* what the last update_settings, set_usage_history or
                        \* reset_settings call returned
    \* ---- the event bridge and perform_extraction (auth.rs) ----
    HIDDEN_WEBVIEW_EVENTS,  \* the sender slot: None or Some(attempt whose channel it feeds)
    slotLock,           \* None, or Some(pusher holding the slot's lock across its send)
    chan,               \* the events buffered in each attempt's channel
    hiddenWindow,       \* the window labelled "hidden-auth": None or Some(its attempt)
    attPc,              \* "idle" | "create" | "recv" | "teardown" | "done" | "taken"
                        \* (its result has been taken by its fetch_usage)
    attAcc,             \* customer_id, usage_data, usage_history, error of the receive loop
    attExit,            \* how the attempt left the receive loop
    attResult,          \* what perform_extraction returned
    pushPc,             \* "idle" | "blocked" (inside tx.send().await on a full channel)
    pushEv,             \* the event a blocked invocation is sending
    pushBudget,         \* hidden_webview_event invocations left
    flood               \* the invocations carry only events the loop does not store

pollVars == << is_shutting_down, cancel_tx, last_restart, last_interval, now,
               thrPc, thrArg, thrOp >>
loopVars == << loopPc, loopInterval, cancelBuf, cancelTxAlive, tickDue >>
storeVars == << settings, settings_file, usage_cache, usage_history, history_file,
               scPc, scArg, ret >>
bridgeVars == << HIDDEN_WEBVIEW_EVENTS, slotLock, chan, hiddenWindow, attPc, attAcc,
                attExit, attResult, pushPc, pushEv, pushBudget, flood >>
vars == << pollVars, loopVars, storeVars, bridgeVars >>

-----------------------------------------------------------------------------
(* StoreManager *)

\* AppSettings::default()
DefaultSettings ==
    [ customer_id |-> None,
      is_authenticated |-> FALSE,
      last_usage |-> 0,
      usage_limit |-> DefaultUsageLimit,
      refresh_interval |-> DefaultRefreshInterval ]

\* the AppSettings objects a caller of the update_settings command can supply
SettingsInputs ==
    [ customer_id : {None} \cup { Some(i) : i \in CustomerIds },
      is_authenticated : BOOLEAN,
      last_usage : UsedValues,
      usage_limit : {DefaultUsageLimit},
      refresh_interval : {DefaultRefreshInterval} ]

\* UsageHistoryRow
Rows == [ date : Dates, included_requests : {10}, billed_requests : {0} ]
\* the usage tables an extraction can yield
RowInputs == UNION { [1 .. n -> Rows] : n \in 0 .. MaxHist }

\* UsageEntry
UsageEntry(ts, inc, billed) ==
    [ timestamp |-> ts, used |-> inc + billed, limit |-> 0,
      included_requests |-> inc, billed_requests |-> billed ]
\* the entries a caller of the add_usage_entry command can supply
EntryInputs == { UsageEntry(ts, 10, 0) : ts \in {90} }

\* UsageCache
CacheInputs == { [ customer_id |-> i, discount_quantity |-> 5 ] : i \in CustomerIds }

\* StoreManager::is_authenticated
is_authenticated == settings.is_authenticated

\* StoreManager::get_usage
get_usage == << settings.last_usage, settings.usage_limit >>

\* StoreManager::get_usage_history
get_usage_history == usage_history

\* save_settings_to_disk: the file after the write; io is whether std::fs::write succeeds
save_settings_to_disk(s, io) == IF io THEN Some(s) ELSE settings_file

\* save_history_to_disk
save_history_to_disk(h, io) == IF io THEN Some(h) ELSE history_file

\* the outcome of a call: the function, whether it returned Ok, whether its file
\* operation took place, and the value it was to store (or returned)
Outcome(fn, ok, wrote, arg) == [ fn |-> fn, ok |-> ok, wrote |-> wrote, arg |-> arg ]
NoOutcome == Outcome("none", TRUE, TRUE, << >>)

\* a variant that restores the previous settings when the write fails
update_settings_RollsBack(updated, io) ==
    /\ settings' = IF io THEN updated ELSE settings
    /\ settings_file' = save_settings_to_disk(updated, io)
    /\ ret' = Outcome("update_settings", io, io, updated)

\* StoreManager::update_settings: the updater is applied and the whole object is written
\* inside one critical section; updated is the settings the updater leaves; the Result
\* is that of the write
update_settings(updated, io) ==
    /\ settings' = updated
    /\ settings_file' = save_settings_to_disk(updated, io)
    /\ ret' = Outcome("update_settings", io, io, updated)

\* the updater of StoreManager::set_customer_id
set_customer_id(s, id) == [s EXCEPT !.customer_id = Some(id), !.is_authenticated = TRUE]

\* the updater of StoreManager::clear_auth
clear_auth(s) == [s EXCEPT !.customer_id = None, !.is_authenticated = FALSE]

\* the updater of StoreManager::set_usage
set_usage(s, used, limit) == [s EXCEPT !.last_usage = used, !.usage_limit = limit]

\* the two date formats of map_history_rows, as days since 2024-01-01
ParseDate(date, nowTs) ==
    CASE date = "2024-03-01T00:00:00Z" -> 60
      [] date = "2024-02-01 00:00:00 +0000 UTC" -> 31
      [] OTHER -> nowTs

\* entries.sort_by(|a, b| b.timestamp.cmp(&a.timestamp)): stable, descending
RECURSIVE InsertDesc(_, _)
InsertDesc(e, sorted) ==
    IF sorted = << >> THEN << e >>
    ELSE IF Head(sorted).timestamp >= e.timestamp
         THEN << Head(sorted) >> \o InsertDesc(e, Tail(sorted))
         ELSE << e >> \o sorted

RECURSIVE SortDesc(_)
SortDesc(entries) ==
    IF entries = << >> THEN << >>
    ELSE InsertDesc(entries[Len(entries)], SortDesc(SubSeq(entries, 1, Len(entries) - 1)))

\* UsageManager::map_history_rows
map_history_rows(rows, nowTs) ==
    SortDesc([ i \in 1 .. Len(rows) |->
                 UsageEntry(ParseDate(rows[i].date, nowTs),
                            rows[i].included_requests, rows[i].billed_requests) ])

\* the content of a file that does not parse as the type it should hold
CorruptContent == [ garbage |-> TRUE ]

\* serde_json::from_str::<AppSettings>(&content) succeeds
ParsesAsSettings(content) == DOMAIN content = DOMAIN DefaultSettings

\* serde_json::from_str::<Vec<UsageEntry>>(&content) succeeds
ParsesAsHistory(content) ==
    \A i \in 1 .. Len(content) : DOMAIN content[i] = DOMAIN UsageEntry(0, 0, 0)

\* load_settings_from_disk returns Ok; io is whether std::fs::read_to_string succeeds
load_settings_from_disk(io) == io /\ ParsesAsSettings(settings_file[1])

\* load_history_from_disk returns Ok
load_history_from_disk(io) == io /\ ParsesAsHistory(history_file[1])

\* the settings.json and usage_history.json files a directory can hold at start-up
SettingsFiles ==
    {None} \cup { Some(s) : s \in SettingsInputs } \cup { Some(CorruptContent) }
HistoryFiles ==
    {None} \cup { Some(map_history_rows(rows, nowTs)) : rows \in RowInputs, nowTs \in NowValues }
           \cup { Some(<< CorruptContent >>) }

\* StoreManager::new: a present file is loaded, and a load error is returned by `?`;
\* an absent file gives the default settings, the empty history
StoreManagerNew(c, io) ==
    /\ scPc[c] = "new"
    /\ IF settings_file # None /\ ~load_settings_from_disk(io)
       THEN /\ scPc' = [scPc EXCEPT ![c] = "new_failed"]
            /\ UNCHANGED << settings, usage_cache, usage_history >>
       ELSE IF history_file # None /\ ~load_history_from_disk(io)
       THEN /\ scPc' = [scPc EXCEPT ![c] = "new_failed"]
            /\ UNCHANGED << settings, usage_cache, usage_history >>
       ELSE /\ settings' = IF settings_file # None THEN settings_file[1] ELSE DefaultSettings
            /\ usage_history' = IF history_file # None THEN history_file[1] ELSE << >>
            /\ usage_cache' = None
            /\ scPc' = [scPc EXCEPT ![c] = "idle"]
    /\ UNCHANGED << settings_file, history_file, scArg, ret >>
    /\ UNCHANGED << pollVars, loopVars, bridgeVars >>

\* the update_settings command: the whole settings object is replaced by the caller's
CmdUpdateSettings(s, io) ==
    /\ update_settings(s, io)
    /\ UNCHANGED << usage_cache, usage_history, history_file, scPc, scArg >>
    /\ UNCHANGED << pollVars, loopVars, bridgeVars >>

\* a variant in which a login re-arms the Scheduler
AuthSetCustomerId_ClearsShutdown(id, io) ==
    /\ update_settings(set_customer_id(settings, id), io)
    /\ is_shutting_down' = FALSE
    /\ UNCHANGED << usage_cache, usage_history, history_file, scPc, scArg >>
    /\ UNCHANGED << cancel_tx, last_restart, last_interval, now, thrPc, thrArg, thrOp >>
    /\ UNCHANGED << loopVars, bridgeVars >>

\* set_customer_id as the login redirect and perform_auth_extraction call it
AuthSetCustomerId(id, io) ==
    /\ update_settings(set_customer_id(settings, id), io)
    /\ UNCHANGED << usage_cache, usage_history, history_file, scPc, scArg >>
    /\ UNCHANGED << pollVars, loopVars, bridgeVars >>

\* a variant that updates the settings in memory and leaves the file for later
SetUsage_MemoryOnly(used, limit, io) ==
    /\ settings' = set_usage(settings, used, limit)
    /\ ret' = Outcome("update_settings", TRUE, TRUE, settings')
    /\ UNCHANGED << settings_file, usage_cache, usage_history, history_file, scPc, scArg >>
    /\ UNCHANGED << pollVars, loopVars, bridgeVars >>

\* set_usage as fetch_usage and the login redirect call it
SetUsage(used, limit, io) ==
    /\ update_settings(set_usage(settings, used, limit), io)
    /\ UNCHANGED << usage_cache, usage_history, history_file, scPc, scArg >>
    /\ UNCHANGED << pollVars, loopVars, bridgeVars >>

\* StoreManager::set_usage_cache
SetUsageCache(cache) ==
    /\ usage_cache' = Some(cache)
    /\ UNCHANGED << settings, settings_file, usage_history, history_file, scPc, scArg, ret >>
    /\ UNCHANGED << pollVars, loopVars, bridgeVars >>

\* a variant that appends the new entries to the list
set_usage_history_Appends(c, history) ==
    /\ usage_history' = usage_history \o history
    /\ scPc' = [scPc EXCEPT ![c] = "hist_write"]
    /\ scArg' = [scArg EXCEPT ![c] = usage_history \o history]
    /\ UNCHANGED << settings, settings_file, usage_cache, history_file, ret >>
    /\ UNCHANGED << pollVars, loopVars, bridgeVars >>

\* StoreManager::set_usage_history, lines 358-360: replace the list under the lock
set_usage_history(c, history) ==
    /\ usage_history' = history
    /\ scPc' = [scPc EXCEPT ![c] = "hist_write"]
    /\ scArg' = [scArg EXCEPT ![c] = history]
    /\ UNCHANGED << settings, settings_file, usage_cache, history_file, ret >>
    /\ UNCHANGED << pollVars, loopVars, bridgeVars >>

\* StoreManager::set_usage_history, lines 362-370: the write, outside the lock
SetUsageHistoryWrite(c, io) ==
    /\ scPc[c] = "hist_write"
    /\ history_file' = save_history_to_disk(scArg[c], io)
    /\ ret' = Outcome("set_usage_history", TRUE, io, scArg[c])
    /\ scPc' = [scPc EXCEPT ![c] = "idle"]
    /\ scArg' = [scArg EXCEPT ![c] = << >>]
    /\ UNCHANGED << settings, settings_file, usage_cache, usage_history >>
    /\ UNCHANGED << pollVars, loopVars, bridgeVars >>

\* fetch_usage lines 111-114 and the login redirect: store the mapped usage table
StoreExtractedHistory(c, rows, nowTs) ==
    /\ scPc[c] = "idle"
    /\ set_usage_history(c, map_history_rows(rows, nowTs))

\* the clear_usage_history command
ClearUsageHistory(c) ==
    /\ scPc[c] = "idle"
    /\ set_usage_history(c, << >>)

\* the add_usage_entry command, lines 509-510: read the list and push the entry
AddUsageEntryGet(c, entry) ==
    /\ scPc[c] = "idle"
    /\ Len(usage_history) < MaxHist
    /\ scPc' = [scPc EXCEPT ![c] = "add_set"]
    /\ scArg' = [scArg EXCEPT ![c] = Append(get_usage_history, entry)]
    /\ UNCHANGED << settings, settings_file, usage_cache, usage_history, history_file, ret >>
    /\ UNCHANGED << pollVars, loopVars, bridgeVars >>

\* the add_usage_entry command, line 511
AddUsageEntrySet(c) ==
    /\ scPc[c] = "add_set"
    /\ set_usage_history(c, scArg[c])

\* StoreManager::reset_settings, lines 378-381
ResetSettingsUpdate(c, io) ==
    /\ scPc[c] = "idle"
    /\ update_settings(DefaultSettings, io)
    /\ IF io
       THEN scPc' = [scPc EXCEPT ![c] = "reset_cache"]
       ELSE UNCHANGED scPc
    /\ UNCHANGED << usage_cache, usage_history, history_file, scArg >>
    /\ UNCHANGED << pollVars, loopVars, bridgeVars >>

\* a variant that leaves the usage cache as it is
ResetClearCache_KeepsCache(c) ==
    /\ scPc[c] = "reset_cache"
    /\ scPc' = [scPc EXCEPT ![c] = "reset_hist"]
    /\ UNCHANGED << settings, settings_file, usage_cache, usage_history, history_file,
                    scArg, ret >>
    /\ UNCHANGED << pollVars, loopVars, bridgeVars >>

\* StoreManager::reset_settings, lines 383-387
ResetClearCache(c) ==
    /\ scPc[c] = "reset_cache"
    /\ usage_cache' = None
    /\ scPc' = [scPc EXCEPT ![c] = "reset_hist"]
    /\ UNCHANGED << settings, settings_file, usage_history, history_file, scArg, ret >>
    /\ UNCHANGED << pollVars, loopVars, bridgeVars >>

\* StoreManager::reset_settings, lines 389-393
ResetClearHistory(c) ==
    /\ scPc[c] = "reset_hist"
    /\ usage_history' = << >>
    /\ scPc' = [scPc EXCEPT ![c] = "reset_file"]
    /\ UNCHANGED << settings, settings_file, usage_cache, history_file, scArg, ret >>
    /\ UNCHANGED << pollVars, loopVars, bridgeVars >>

\* StoreManager::reset_settings, lines 395-401
ResetDeleteFile(c, io) ==
    /\ scPc[c] = "reset_file"
    /\ IF history_file # None /\ ~io
       THEN UNCHANGED history_file
       ELSE history_file' = None
    /\ ret' = Outcome("reset_settings", history_file = None \/ io,
                      history_file # None /\ io, DefaultSettings)
    /\ scPc' = [scPc EXCEPT ![c] = "idle"]
    /\ UNCHANGED << settings, settings_file, usage_cache, usage_history, scArg >>
    /\ UNCHANGED << pollVars, loopVars, bridgeVars >>

-----------------------------------------------------------------------------
(* PollingState *)

\* a variant that passes the value on as it is
ClampInterval_Unclamped(value) == value

\* value.max(10) at the two call sites of restart_polling
ClampInterval(value) == IF value < MinInterval THEN MinInterval ELSE value

\* tx.try_send(()) on the cancellation channel of loop l: the new buffer content
TrySendCancel(l) ==
    IF loopPc[l] = "exited" THEN cancelBuf[l]          \* Closed: receiver dropped
    ELSE IF cancelBuf[l] >= 1 THEN cancelBuf[l]         \* Full
    ELSE cancelBuf[l] + 1                               \* Ok

\* guard.take() and try_send: the cancellation buffers afterwards
BufAfterTake ==
    IF cancel_tx = None THEN cancelBuf
    ELSE [cancelBuf EXCEPT ![cancel_tx[1]] = TrySendCancel(cancel_tx[1])]

\* the taken sender is dropped at the end of the block
AliveAfterTake ==
    IF cancel_tx = None THEN cancelTxAlive
    ELSE [cancelTxAlive EXCEPT ![cancel_tx[1]] = FALSE]

\* loops not yet spawned
FreeLoops == { l \in Loops : loopPc[l] = "unspawned" }
\* restart_polling calls that may still spawn a loop
PendingRestarts == { t \in Threads : thrPc[t] \in {"r_debounce", "r_spawn"} }

\* a variant that does not look at the shutting-down flag
RestartCheckShutdown_IgnoresFlag(t, value) ==
    /\ thrPc[t] = "idle"
    /\ Cardinality(FreeLoops) > Cardinality(PendingRestarts)
    /\ thrPc' = [thrPc EXCEPT ![t] = "r_debounce"]
    /\ thrArg' = [thrArg EXCEPT ![t] = ClampInterval(value)]
    /\ thrOp' = [thrOp EXCEPT ![t] = "restart"]
    /\ UNCHANGED << is_shutting_down, cancel_tx, last_restart, last_interval, now >>
    /\ UNCHANGED << loopVars, storeVars, bridgeVars >>

\* restart_polling, lines 92-99: the shutting-down check
RestartCheckShutdown(t, value) ==
    /\ thrPc[t] = "idle"
    /\ Cardinality(FreeLoops) > Cardinality(PendingRestarts)
    /\ IF is_shutting_down
       THEN UNCHANGED << thrPc, thrArg, thrOp >>
       ELSE /\ thrPc' = [thrPc EXCEPT ![t] = "r_debounce"]
            /\ thrArg' = [thrArg EXCEPT ![t] = ClampInterval(value)]
            /\ thrOp' = [thrOp EXCEPT ![t] = "restart"]
    /\ UNCHANGED << is_shutting_down, cancel_tx, last_restart, last_interval, now >>
    /\ UNCHANGED << loopVars, storeVars, bridgeVars >>

\* a variant without the debounce: every request goes on to cancel and spawn
RestartDebounce_AlwaysRestarts(t) ==
    /\ thrPc[t] = "r_debounce"
    /\ last_restart' = now
    /\ last_interval' = thrArg[t]
    /\ thrPc' = [thrPc EXCEPT ![t] = "r_spawn"]
    /\ UNCHANGED << thrArg, thrOp >>
    /\ UNCHANGED << is_shutting_down, cancel_tx, now >>
    /\ UNCHANGED << loopVars, storeVars, bridgeVars >>

\* restart_polling, lines 101-116: the debounce
RestartDebounce(t) ==
    /\ thrPc[t] = "r_debounce"
    /\ IF /\ last_interval = thrArg[t]
          /\ now - last_restart < POLLING_RESTART_DEBOUNCE_MS
       THEN /\ thrPc' = [thrPc EXCEPT ![t] = "idle"]
            /\ thrArg' = [thrArg EXCEPT ![t] = 0]
            /\ thrOp' = [thrOp EXCEPT ![t] = "none"]
            /\ UNCHANGED << last_restart, last_interval >>
       ELSE /\ last_restart' = now
            /\ last_interval' = thrArg[t]
            /\ thrPc' = [thrPc EXCEPT ![t] = "r_spawn"]
            /\ UNCHANGED << thrArg, thrOp >>
    /\ UNCHANGED << is_shutting_down, cancel_tx, now >>
    /\ UNCHANGED << loopVars, storeVars, bridgeVars >>

\* UsageManager::start_polling, lines 241-244 and 282: a new channel and a new task
start_polling(n, interval_seconds) ==
    /\ loopPc' = [loopPc EXCEPT ![n] = "spawned"]
    /\ loopInterval' = [loopInterval EXCEPT ![n] = interval_seconds]
    /\ cancelBuf' = BufAfterTake
    /\ cancelTxAlive' = [AliveAfterTake EXCEPT ![n] = TRUE]
    /\ tickDue' = [tickDue EXCEPT ![n] = FALSE]

\* restart_polling, lines 118-137: cancel the old loop, spawn the new one
RestartSpawn(t) ==
    /\ thrPc[t] = "r_spawn"
    /\ LET n == CHOOSE l \in FreeLoops : \A m \in FreeLoops : l <= m IN
       /\ start_polling(n, thrArg[t])
       /\ cancel_tx' = Some(n)
    /\ thrPc' = [thrPc EXCEPT ![t] = "idle"]
    /\ thrArg' = [thrArg EXCEPT ![t] = 0]
    /\ thrOp' = [thrOp EXCEPT ![t] = "none"]
    /\ UNCHANGED << is_shutting_down, last_restart, last_interval, now >>
    /\ UNCHANGED << storeVars, bridgeVars >>

\* the logout command, line 859: clear_auth()?
LogoutClearAuth(t, io) ==
    /\ thrPc[t] = "idle"
    /\ update_settings(clear_auth(settings), io)
    /\ IF io
       THEN /\ thrPc' = [thrPc EXCEPT ![t] = "l_stop"]
            /\ thrOp' = [thrOp EXCEPT ![t] = "logout"]
       ELSE UNCHANGED << thrPc, thrOp >>
    /\ UNCHANGED << usage_cache, usage_history, history_file, scPc, scArg >>
    /\ UNCHANGED << is_shutting_down, cancel_tx, last_restart, last_interval, now, thrArg >>
    /\ UNCHANGED << loopVars, bridgeVars >>

\* stop_polling, lines 142-147: set the shutdown flag (called by quit, or by logout)
StopSetFlag(t) ==
    /\ \/ thrPc[t] = "idle" /\ thrOp' = [thrOp EXCEPT ![t] = "stop"]
       \/ thrPc[t] = "l_stop" /\ UNCHANGED thrOp
    /\ is_shutting_down' = TRUE
    /\ thrPc' = [thrPc EXCEPT ![t] = "s_cancel"]
    /\ UNCHANGED << cancel_tx, last_restart, last_interval, now, thrArg >>
    /\ UNCHANGED << loopVars, storeVars, bridgeVars >>

\* stop_polling, lines 149-162: take the sender and send the cancellation
StopCancel(t) ==
    /\ thrPc[t] = "s_cancel"
    /\ cancelBuf' = BufAfterTake
    /\ cancelTxAlive' = AliveAfterTake
    /\ cancel_tx' = None
    /\ thrPc' = [thrPc EXCEPT ![t] = "idle"]
    /\ thrOp' = [thrOp EXCEPT ![t] = "none"]
    /\ UNCHANGED << is_shutting_down, last_restart, last_interval, now, thrArg >>
    /\ UNCHANGED << loopPc, loopInterval, tickDue >>
    /\ UNCHANGED << storeVars, bridgeVars >>

\* the clock advances
Tick ==
    /\ now + TimeStep <= MaxTime
    /\ now' = now + TimeStep
    /\ UNCHANGED << is_shutting_down, cancel_tx, last_restart, last_interval,
                    thrPc, thrArg, thrOp >>
    /\ UNCHANGED << loopVars, storeVars, bridgeVars >>

-----------------------------------------------------------------------------
(* The polling loop task spawned by start_polling *)

\* a variant that runs the loop body on the first, immediate tick
LoopFirstTick_NotSkipped(l) ==
    /\ loopPc[l] = "spawned"
    /\ loopPc' = [loopPc EXCEPT ![l] = IF is_authenticated THEN "fetching" ELSE "select"]
    /\ UNCHANGED << loopInterval, cancelBuf, cancelTxAlive, tickDue >>
    /\ UNCHANGED << pollVars, storeVars, bridgeVars >>

\* usage.rs line 248: the first tick of the interval completes at once and is skipped
LoopFirstTick(l) ==
    /\ loopPc[l] = "spawned"
    /\ loopPc' = [loopPc EXCEPT ![l] = "select"]
    /\ UNCHANGED << loopInterval, cancelBuf, cancelTxAlive, tickDue >>
    /\ UNCHANGED << pollVars, storeVars, bridgeVars >>

\* tokio::time::interval: a full period (interval_seconds) elapses and the next tick
\* becomes due; a period that ends while the loop is busy is taken when it is back
\* in select!, which is when it is counted here
IntervalElapse(l) ==
    /\ loopPc[l] = "select"
    /\ ~tickDue[l]
    /\ tickDue' = [tickDue EXCEPT ![l] = TRUE]
    /\ UNCHANGED << loopPc, loopInterval, cancelBuf, cancelTxAlive >>
    /\ UNCHANGED << pollVars, storeVars, bridgeVars >>

\* a variant that fetches on every tick, whatever the Store reports
LoopTick_AlwaysFetches(l) ==
    /\ loopPc[l] = "select"
    /\ tickDue[l]
    /\ tickDue' = [tickDue EXCEPT ![l] = FALSE]
    /\ loopPc' = [loopPc EXCEPT ![l] = "fetching"]
    /\ UNCHANGED << loopInterval, cancelBuf, cancelTxAlive >>
    /\ UNCHANGED << pollVars, storeVars, bridgeVars >>

\* usage.rs lines 252-273: the tick branch of select!; the fetch is awaited inside it
LoopTick(l) ==
    /\ loopPc[l] = "select"
    /\ tickDue[l]
    /\ tickDue' = [tickDue EXCEPT ![l] = FALSE]
    /\ IF is_authenticated
       THEN loopPc' = [loopPc EXCEPT ![l] = "fetching"]
       ELSE UNCHANGED loopPc
    /\ UNCHANGED << loopInterval, cancelBuf, cancelTxAlive >>
    /\ UNCHANGED << pollVars, storeVars, bridgeVars >>

\* a variant in which the loop ends when its fetch returns
LoopFetchReturn_StopsLoop(l) ==
    /\ loopPc[l] = "fetching"
    /\ loopPc' = [loopPc EXCEPT ![l] = "exited"]
    /\ UNCHANGED << loopInterval, cancelBuf, cancelTxAlive, tickDue >>
    /\ UNCHANGED << pollVars, storeVars, bridgeVars >>

\* usage.rs lines 259-268: fetch_usage returns (Ok or Err), the loop goes on
LoopFetchReturn(l) ==
    /\ loopPc[l] = "fetching"
    /\ loopPc' = [loopPc EXCEPT ![l] = "select"]
    /\ UNCHANGED << loopInterval, cancelBuf, cancelTxAlive, tickDue >>
    /\ UNCHANGED << pollVars, storeVars, bridgeVars >>

\* usage.rs lines 274-277: cancel_rx.recv() yields a message, or None once the
\* sender is dropped and the buffer is empty; either way the loop breaks
LoopCancelled(l) ==
    /\ loopPc[l] = "select"
    /\ cancelBuf[l] > 0 \/ ~cancelTxAlive[l]
    /\ loopPc' = [loopPc EXCEPT ![l] = "exited"]
    /\ cancelBuf' = [cancelBuf EXCEPT ![l] = 0]
    /\ tickDue' = [tickDue EXCEPT ![l] = FALSE]
    /\ UNCHANGED << loopInterval, cancelTxAlive >>
    /\ UNCHANGED << pollVars, storeVars, bridgeVars >>

-----------------------------------------------------------------------------
(* The event bridge and the extraction orchestrator *)

\* a JSON payload: json is whether serde_json parses it; an absent key is None
Payload(json, success, id, error, usageCard, usageTable) ==
    [ json |-> json, success |-> success, id |-> id, error |-> error,
      usageCard |-> usageCard, usageTable |-> usageTable ]
EmptyPayload == Payload(TRUE, None, None, None, None, None)

\* HiddenWebviewEvent
HiddenWebviewEvent(event, payload) == [ event |-> event, payload |-> payload ]

\* a row of the usage table: wellformed is whether it has an id, five cells and
\* parsable numbers
TableRows == [ date : {"2024-03-01T00:00:00Z"}, included_requests : {10},
               billed_requests : {0}, wellformed : BOOLEAN ]
\* usageCard.data
UsageCards == [ discount_quantity : {5}, user_premium_request_entitlement : {300} ]

\* usageCard.data with every pair of figures up to MaxFigure: used below, equal to
\* and above the limit, and a limit of 0
FigureCards == [ discount_quantity : 0 .. MaxFigure,
                 user_premium_request_entitlement : 0 .. MaxFigure ]

\* the events the injected script pushes (runExtraction), and one of another name
ScriptEvents ==
    { HiddenWebviewEvent("auth:extraction:customer",
                         [EmptyPayload EXCEPT !.success = Some(TRUE), !.id = Some(i)]) :
        i \in CustomerIds }
    \cup { HiddenWebviewEvent("auth:extraction:customer",
                         [EmptyPayload EXCEPT !.success = Some(FALSE),
                                              !.error = Some("No customer ID pattern matched")]) }
    \cup { HiddenWebviewEvent("auth:extraction:usage",
                         [EmptyPayload EXCEPT !.usageCard = Some(c), !.usageTable = Some(<< r >>)]) :
        c \in UsageCards, r \in TableRows }
    \cup { HiddenWebviewEvent("auth:extraction:complete",
                         [EmptyPayload EXCEPT !.success = Some(TRUE)]) }
    \cup { HiddenWebviewEvent("other", EmptyPayload) }

\* the events of a flood: the terminal event and events of another name
FloodEvents ==
    { HiddenWebviewEvent("auth:extraction:complete",
                         [EmptyPayload EXCEPT !.success = Some(TRUE)]),
      HiddenWebviewEvent("other", EmptyPayload) }

\* the events hidden_webview_event can be invoked with, well-formed or not: the
\* events of the script, an identifier failure without an "error" key, an identifier
\* and a usage event whose payload is not JSON, and an event of another name
EventInputs ==
    ScriptEvents
    \cup { HiddenWebviewEvent("auth:extraction:customer",
                              [EmptyPayload EXCEPT !.success = Some(FALSE)]) }
    \cup { HiddenWebviewEvent(name, [EmptyPayload EXCEPT !.json = FALSE]) :
             name \in {"auth:extraction:customer", "auth:extraction:usage"} }

\* invocations enough to fill a channel and block one more
FloodPushes == ChannelCapacity + 1

PushInputs == IF flood THEN FloodEvents ELSE ScriptEvents

\* the four accumulators of the receive loop, lines 798-801
EmptyAcc == [ customer_id |-> None, usage_data |-> None, usage_history |-> None,
              error |-> None ]

\* lines 837-878: filter_map over the rows of the usage table
RECURSIVE ParseRows(_)
ParseRows(rows) ==
    IF rows = << >> THEN << >>
    ELSE LET r == Head(rows) IN
         (IF r.wellformed
          THEN << [ date |-> r.date, included_requests |-> r.included_requests,
                    billed_requests |-> r.billed_requests ] >>
          ELSE << >>) \o ParseRows(Tail(rows))

\* a variant that records an error for a payload that is not JSON
ProcessEvent_BadPayloadSetsError(acc, ev) ==
    CASE ev.event = "auth:extraction:customer" ->
           IF ~ev.payload.json THEN [acc EXCEPT !.error = Some("Invalid payload")]
           ELSE IF ev.payload.success = Some(TRUE)
                THEN [acc EXCEPT !.customer_id = ev.payload.id]
                ELSE [acc EXCEPT !.error = ev.payload.error]
      [] ev.event = "auth:extraction:usage" ->
           IF ~ev.payload.json THEN [acc EXCEPT !.error = Some("Invalid payload")]
           ELSE [acc EXCEPT
                   !.usage_data = IF ev.payload.usageCard # None
                                  THEN ev.payload.usageCard ELSE @,
                   !.usage_history = IF ev.payload.usageTable # None
                                     THEN Some(ParseRows(ev.payload.usageTable[1])) ELSE @]
      [] OTHER -> acc

\* lines 806-889: the match on the event's name
ProcessEvent(acc, ev) ==
    CASE ev.event = "auth:extraction:customer" ->
           IF ~ev.payload.json THEN acc
           ELSE IF ev.payload.success = Some(TRUE)
                THEN [acc EXCEPT !.customer_id = ev.payload.id]
                ELSE [acc EXCEPT !.error = ev.payload.error]
      [] ev.event = "auth:extraction:usage" ->
           IF ~ev.payload.json THEN acc
           ELSE [acc EXCEPT
                   !.usage_data = IF ev.payload.usageCard # None
                                  THEN ev.payload.usageCard ELSE @,
                   !.usage_history = IF ev.payload.usageTable # None
                                     THEN Some(ParseRows(ev.payload.usageTable[1])) ELSE @]
      [] OTHER -> acc

\* ExtractionResult, wrapped in the Result that perform_extraction returns
ExtractionResult(ok, cid, data, hist, err) ==
    [ ok |-> ok, customer_id |-> cid, usage_data |-> data,
      usage_history |-> hist, error |-> err ]
NoResult == ExtractionResult(FALSE, None, None, None, None)

\* a variant that keeps the data gathered before the deadline
ReturnValue_KeepPartial(exit, acc) ==
    ExtractionResult(TRUE, acc.customer_id, acc.usage_data, acc.usage_history,
                     IF exit = "timeout" THEN Some("Extraction timed out") ELSE acc.error)

\* lines 909-917: the match on the outcome of tokio::time::timeout
ReturnValue(exit, acc) ==
    IF exit = "timeout"
    THEN ExtractionResult(TRUE, None, None, None, Some("Extraction timed out"))
    ELSE ExtractionResult(TRUE, acc.customer_id, acc.usage_data, acc.usage_history, acc.error)

\* a variant that closes the window only when the wait ended without a timeout
WindowAfterClose_NotOnTimeout(a, exit) ==
    IF hiddenWindow = Some(a) /\ exit # "timeout" THEN None ELSE hiddenWindow

\* line 901: window.close(), whatever ended the wait
WindowAfterClose(a, exit) == IF hiddenWindow = Some(a) THEN None ELSE hiddenWindow

\* the receiver of attempt a's channel is alive from its creation to the return
RxAlive(a) == attPc[a] \in {"create", "recv", "teardown"}

\* lines 784-791: create the channel and install its sender in the slot
Install(a) ==
    /\ attPc[a] = "idle"
    /\ \A b \in Attempts : b < a => attPc[b] # "idle"
    /\ slotLock = None
    /\ HIDDEN_WEBVIEW_EVENTS' = Some(a)
    /\ attPc' = [attPc EXCEPT ![a] = "create"]
    /\ UNCHANGED << slotLock, chan, hiddenWindow, attAcc, attExit, attResult,
                    pushPc, pushEv, pushBudget, flood >>
    /\ UNCHANGED << pollVars, loopVars, storeVars >>

\* line 794: create_hidden_webview(app)?; built is whether the platform builds the
\* window, which it refuses while a window labelled "hidden-auth" exists
CreateWebview(a, built) ==
    /\ attPc[a] = "create"
    /\ IF built /\ hiddenWindow = None
       THEN /\ hiddenWindow' = Some(a)
            /\ attPc' = [attPc EXCEPT ![a] = "recv"]
            /\ UNCHANGED << chan, attExit, attResult >>
       ELSE /\ attPc' = [attPc EXCEPT ![a] = "done"]
            /\ attExit' = [attExit EXCEPT ![a] = "create_failed"]
            /\ attResult' = [attResult EXCEPT ![a] =
                 ExtractionResult(FALSE, None, None, None,
                                  Some("Failed to create hidden webview"))]
            /\ chan' = [chan EXCEPT ![a] = << >>]
            /\ UNCHANGED hiddenWindow
    /\ UNCHANGED << HIDDEN_WEBVIEW_EVENTS, slotLock, attAcc, pushPc, pushEv, pushBudget,
                    flood >>
    /\ UNCHANGED << pollVars, loopVars, storeVars >>

\* the wait is over (lines 898-901): the window is closed, the teardown is next
LeaveLoop(a, exit) ==
    /\ attExit' = [attExit EXCEPT ![a] = exit]
    /\ hiddenWindow' = WindowAfterClose(a, exit)
    /\ attPc' = [attPc EXCEPT ![a] = "teardown"]

\* a variant that takes the newest event of the channel, not the oldest
RecvEvent_TakesNewest(a) ==
    /\ attPc[a] = "recv"
    /\ chan[a] # << >>
    /\ chan' = [chan EXCEPT ![a] = SubSeq(@, 1, Len(@) - 1)]
    /\ IF chan[a][Len(chan[a])].event = "auth:extraction:complete"
       THEN LeaveLoop(a, "complete") /\ UNCHANGED attAcc
       ELSE /\ attAcc' = [attAcc EXCEPT ![a] = ProcessEvent(@, chan[a][Len(chan[a])])]
            /\ UNCHANGED << attExit, hiddenWindow, attPc >>
    /\ UNCHANGED << HIDDEN_WEBVIEW_EVENTS, slotLock, attResult, pushPc, pushEv,
                    pushBudget, flood >>
    /\ UNCHANGED << pollVars, loopVars, storeVars >>

\* lines 803-890: one iteration of the receive loop
RecvEvent(a) ==
    /\ attPc[a] = "recv"
    /\ chan[a] # << >>
    /\ chan' = [chan EXCEPT ![a] = Tail(@)]
    /\ IF Head(chan[a]).event = "auth:extraction:complete"
       THEN LeaveLoop(a, "complete") /\ UNCHANGED attAcc
       ELSE /\ attAcc' = [attAcc EXCEPT ![a] = ProcessEvent(@, Head(chan[a]))]
            /\ UNCHANGED << attExit, hiddenWindow, attPc >>
    /\ UNCHANGED << HIDDEN_WEBVIEW_EVENTS, slotLock, attResult, pushPc, pushEv,
                    pushBudget, flood >>
    /\ UNCHANGED << pollVars, loopVars, storeVars >>

\* line 803: rx.recv() yields None once the buffer is empty and no sender is left,
\* which is when the slot holds another sender or none
RecvClosed(a) ==
    /\ attPc[a] = "recv"
    /\ chan[a] = << >>
    /\ HIDDEN_WEBVIEW_EVENTS # Some(a)
    /\ LeaveLoop(a, "closed")
    /\ UNCHANGED << HIDDEN_WEBVIEW_EVENTS, slotLock, chan, attAcc, attResult,
                    pushPc, pushEv, pushBudget, flood >>
    /\ UNCHANGED << pollVars, loopVars, storeVars >>

\* line 797: the 30 s deadline expires while the loop waits
Timeout(a) ==
    /\ attPc[a] = "recv"
    /\ LeaveLoop(a, "timeout")
    /\ UNCHANGED << HIDDEN_WEBVIEW_EVENTS, slotLock, chan, attAcc, attResult,
                    pushPc, pushEv, pushBudget, flood >>
    /\ UNCHANGED << pollVars, loopVars, storeVars >>

\* lines 903-917: lock the slot, clear it, return; the receiver is dropped
Teardown(a) ==
    /\ attPc[a] = "teardown"
    /\ slotLock = None
    /\ HIDDEN_WEBVIEW_EVENTS' = None
    /\ attResult' = [attResult EXCEPT ![a] = ReturnValue(attExit[a], attAcc[a])]
    /\ attPc' = [attPc EXCEPT ![a] = "done"]
    /\ chan' = [chan EXCEPT ![a] = << >>]
    /\ UNCHANGED << slotLock, hiddenWindow, attAcc, attExit, pushPc, pushEv,
                    pushBudget, flood >>
    /\ UNCHANGED << pollVars, loopVars, storeVars >>

\* a variant that keeps an event pushed while no sender is installed for the next
\* attempt to receive
hidden_webview_event_BuffersWhenNoSender(p, ev) ==
    /\ pushPc[p] = "idle"
    /\ slotLock = None
    /\ pushBudget > 0
    /\ pushBudget' = pushBudget - 1
    /\ IF HIDDEN_WEBVIEW_EVENTS = None
       THEN /\ chan' = [a \in Attempts |->
                          IF attPc[a] = "idle" /\ Len(chan[a]) < ChannelCapacity
                          THEN Append(chan[a], ev) ELSE chan[a]]
            /\ UNCHANGED << pushPc, pushEv, slotLock >>
       ELSE LET a == HIDDEN_WEBVIEW_EVENTS[1] IN
            IF ~RxAlive(a)
            THEN UNCHANGED << chan, pushPc, pushEv, slotLock >>
            ELSE IF Len(chan[a]) < ChannelCapacity
            THEN /\ chan' = [chan EXCEPT ![a] = Append(@, ev)]
                 /\ UNCHANGED << pushPc, pushEv, slotLock >>
            ELSE /\ pushPc' = [pushPc EXCEPT ![p] = "blocked"]
                 /\ pushEv' = [pushEv EXCEPT ![p] = Some(ev)]
                 /\ slotLock' = Some(p)
                 /\ UNCHANGED chan
    /\ UNCHANGED << HIDDEN_WEBVIEW_EVENTS, hiddenWindow, attPc, attAcc, attExit,
                    attResult, flood >>
    /\ UNCHANGED << pollVars, loopVars, storeVars >>

\* hidden_webview_event, lines 942-948: lock the slot and send on its sender, if any.
\* tx.send().await returns at once when the channel has room (Ok) or its receiver is
\* gone (Err), and waits for room otherwise, the lock still held
hidden_webview_event(p, ev) ==
    /\ pushPc[p] = "idle"
    /\ slotLock = None
    /\ pushBudget > 0
    /\ pushBudget' = pushBudget - 1
    /\ IF HIDDEN_WEBVIEW_EVENTS = None
       THEN UNCHANGED << chan, pushPc, pushEv, slotLock >>
       ELSE LET a == HIDDEN_WEBVIEW_EVENTS[1] IN
            IF ~RxAlive(a)
            THEN UNCHANGED << chan, pushPc, pushEv, slotLock >>
            ELSE IF Len(chan[a]) < ChannelCapacity
            THEN /\ chan' = [chan EXCEPT ![a] = Append(@, ev)]
                 /\ UNCHANGED << pushPc, pushEv, slotLock >>
            ELSE /\ pushPc' = [pushPc EXCEPT ![p] = "blocked"]
                 /\ pushEv' = [pushEv EXCEPT ![p] = Some(ev)]
                 /\ slotLock' = Some(p)
                 /\ UNCHANGED chan
    /\ UNCHANGED << HIDDEN_WEBVIEW_EVENTS, hiddenWindow, attPc, attAcc, attExit,
                    attResult, flood >>
    /\ UNCHANGED << pollVars, loopVars, storeVars >>

\* line 945: the send that waited completes, once there is room or the receiver is gone
SendResume(p) ==
    /\ pushPc[p] = "blocked"
    /\ LET a == HIDDEN_WEBVIEW_EVENTS[1] IN
       /\ ~RxAlive(a) \/ Len(chan[a]) < ChannelCapacity
       /\ chan' = IF RxAlive(a) THEN [chan EXCEPT ![a] = Append(@, pushEv[p][1])] ELSE chan
    /\ pushPc' = [pushPc EXCEPT ![p] = "idle"]
    /\ pushEv' = [pushEv EXCEPT ![p] = None]
    /\ slotLock' = None
    /\ UNCHANGED << HIDDEN_WEBVIEW_EVENTS, hiddenWindow, attPc, attAcc, attExit,
                    attResult, pushBudget, flood >>
    /\ UNCHANGED << pollVars, loopVars, storeVars >>

-----------------------------------------------------------------------------
(* The script injected into the hidden window (auth.rs lines 616-772) *)

\* what a strategy returns: { success: true, id } or { success: false, error }
StrategyOk(id) == [ success |-> TRUE, id |-> Some(id), error |-> None ]
StrategyFailed(error) == [ success |-> FALSE, id |-> None, error |-> Some(error) ]

\* what the page answers to each strategy, and to the two usage requests
ApiAnswers == {"ok", "ok, no id", "status", "throws"}
DomAnswers == {"found", "no element", "no id", "throws"}
HtmlAnswers == {"match", "no match", "throws"}
UsageAnswers == {"ok", "status"}

\* lines 639-652; the identifiers of the three strategies differ, so that the result
\* tells which strategy it comes from
getUserId(api) ==
    CASE api = "ok" -> StrategyOk(1)
      [] api = "ok, no id" -> [ success |-> TRUE, id |-> None, error |-> None ]
      [] api = "status" -> StrategyFailed("API request failed")
      [] OTHER -> StrategyFailed("error.message")

\* lines 654-669
getCustomerIdFromDOM(dom) ==
    CASE dom = "found" -> StrategyOk(2)
      [] dom = "no element" -> StrategyFailed("Embedded data element not found")
      [] dom = "no id" -> StrategyFailed("Customer ID not found in embedded data")
      [] OTHER -> StrategyFailed("error.message")

\* lines 671-691
getCustomerIdFromHTML(html) ==
    CASE html = "match" -> StrategyOk(3)
      [] html = "no match" -> StrategyFailed("No customer ID pattern matched")
      [] OTHER -> StrategyFailed("error.message")

\* a variant that runs every strategy and keeps the last success
extractCustomerId_LastSuccessWins(api, dom, html) ==
    LET r1 == getUserId(api)
        r2 == getCustomerIdFromDOM(dom)
        r3 == getCustomerIdFromHTML(html)
    IN  [ result |-> IF r3.success THEN r3 ELSE IF r2.success THEN r2 ELSE r1,
          calls |-> << "getUserId", "getCustomerIdFromDOM", "getCustomerIdFromHTML" >> ]

\* lines 693-702: the result, and the strategies called, in the order of the calls
extractCustomerId(api, dom, html) ==
    LET r1 == getUserId(api)
        r2 == IF ~r1.success THEN getCustomerIdFromDOM(dom) ELSE r1
        r3 == IF ~r2.success THEN getCustomerIdFromHTML(html) ELSE r2
    IN  [ result |-> r3,
          calls |-> << "getUserId" >>
                    \o (IF ~r1.success THEN << "getCustomerIdFromDOM" >> ELSE << >>)
                    \o (IF ~r2.success THEN << "getCustomerIdFromHTML" >> ELSE << >>) ]

\* lines 704-738: the `data` of a usage request, None when the request failed
fetchUsageCard(card) ==
    IF card = "ok" THEN Some(CHOOSE c \in UsageCards : TRUE) ELSE None
fetchUsageTable(table) ==
    IF table = "ok" THEN Some(<< CHOOSE r \in TableRows : r.wellformed >>) ELSE None

\* lines 740-763: the calls runExtraction makes and the events it hands to
\* sendResult, in order; sendResult (620-637) invokes hidden_webview_event when
\* window.__TAURI__.core exists and writes to localStorage otherwise, and swallows
\* every failure, so the script goes on whatever becomes of an event
runExtraction(tauri, api, dom, html, card, table) ==
    LET c == extractCustomerId(api, dom, html)
        customerResult == c.result
        customer == HiddenWebviewEvent("auth:extraction:customer",
                        [EmptyPayload EXCEPT !.success = Some(customerResult.success),
                                             !.id = customerResult.id,
                                             !.error = customerResult.error])
        usage == HiddenWebviewEvent("auth:extraction:usage",
                        [EmptyPayload EXCEPT !.usageCard = fetchUsageCard(card),
                                             !.usageTable = fetchUsageTable(table)])
        complete == HiddenWebviewEvent("auth:extraction:complete",
                        [EmptyPayload EXCEPT !.success = Some(customerResult.success)])
        sent == IF ~customerResult.success
                THEN << customer, complete >>
                ELSE << customer, usage, complete >>
    IN  [ result |-> customerResult,
          calls |-> c.calls \o (IF ~customerResult.success THEN << >>
                                ELSE << "fetchUsageCard", "fetchUsageTable" >>),
          invoked |-> IF tauri THEN sent ELSE << >>,
          stored |-> IF tauri THEN << >> ELSE sent ]

\* the script runs once, on a page that gives the answers
RunExtraction(tauri, api, dom, html, card, table) ==
    /\ ret' = Outcome("runExtraction", TRUE, tauri,
                      [ api |-> api, dom |-> dom, html |-> html, card |-> card,
                        table |-> table,
                        run |-> runExtraction(tauri, api, dom, html, card, table) ])
    /\ UNCHANGED << settings, settings_file, usage_cache, usage_history, history_file,
                    scPc, scArg >>
    /\ UNCHANGED << pollVars, loopVars, bridgeVars >>

-----------------------------------------------------------------------------
(* UsageManager::fetch_usage: what it stores of the result of perform_extraction *)

\* what perform_extraction can return to fetch_usage: Err (NoResult), or Ok with any
\* of the four fields set
ResultInputs ==
    {NoResult} \cup
    { ExtractionResult(TRUE, cid, data, hist, err) :
        cid \in {None} \cup { Some(i) : i \in CustomerIds },
        data \in {None} \cup { Some(u) : u \in UsageCards },
        hist \in {None} \cup { Some(rows) : rows \in RowInputs },
        err \in {None, Some("Extraction timed out")} }

\* usage.rs lines 99-107: the UsageCache built from the extracted figures
CacheOf(r) ==
    [ customer_id |-> r.customer_id[1],
      discount_quantity |-> r.usage_data[1].discount_quantity ]

\* a variant that subtracts without saturating
UsageSummary_PlainSub(used, limit) ==
    [ used |-> used, limit |-> limit,
      remaining |-> limit - used,
      percentage |-> IF limit > 0 THEN << used * 100, limit >> ELSE << 0, 1 >> ]

\* usage.rs lines 116-122: the UsageSummary of the extracted figures; remaining is
\* limit.saturating_sub(used); percentage is the quotient used * 100 / limit, kept
\* as the pair << numerator, denominator >> (its rounding to f32 is not represented)
UsageSummary(used, limit) ==
    [ used |-> used, limit |-> limit,
      remaining |-> IF limit >= used THEN limit - used ELSE 0,
      percentage |-> IF limit > 0 THEN << used * 100, limit >> ELSE << 0, 1 >> ]

\* UsageManager::get_cached_usage, lines 161-179: the summary of the Store's figures
get_cached_usage ==
    LET used == get_usage[1]
        limit == get_usage[2]
        remaining == IF limit >= used THEN limit - used ELSE 0
        percentage == IF limit > 0 THEN << used * 100, limit >> ELSE << 0, 1 >>
    IN  [ used |-> used, limit |-> limit, remaining |-> remaining,
          percentage |-> percentage ]

\* what fetch_usage returned: the summary it built, and of the result it was given
\* whether it was Ok, its error, and whether it carried an identifier and figures
FetchReturn(r, summary) ==
    [ result |-> [ ok |-> r.ok, error |-> r.error,
                   has_customer_id |-> r.customer_id # None,
                   has_usage_data |-> r.usage_data # None ],
      summary |-> summary ]

\* UsageManager::get_cached_history, lines 181-200: the Store's history when it has
\* entries, else one entry built from the usage cache when there is one (of its
\* fields, those the cache of this model keeps), else nothing
get_cached_history ==
    IF get_usage_history # << >> THEN get_usage_history
    ELSE IF usage_cache # None
         THEN << [ used |-> usage_cache[1].discount_quantity,
                   included_requests |-> usage_cache[1].discount_quantity ] >>
         ELSE << >>

\* usage.rs lines 125-132: the UsagePayload (its prediction is a function of the
\* history and of the summary's figures, and is not kept)
UsagePayload(summary, history) == [ summary |-> summary, history |-> history ]

\* usage.rs lines 135-139: the two notifications of a successful fetch, in the order
\* of their app.emit calls, and what is returned after them
FetchNotifies(r, summary, history) ==
    [ result |-> FetchReturn(r, summary).result,
      summary |-> summary,
      emitted |-> << [ event |-> "usage:data", payload |-> UsagePayload(summary, history) ],
                     [ event |-> "usage:updated", payload |-> summary ] >> ]

\* usage.rs lines 73-87 and 140-156, on the Store: an Err, an error or a missing
\* identifier fall back to the cached figures, which fetch_usage returns; otherwise
\* the identifier is stored, and the figures follow if there are any
fetch_usage(c, r, io) ==
    /\ scPc[c] = "idle"
    /\ IF ~r.ok \/ r.error # None \/ r.customer_id = None
       THEN /\ ret' = Outcome("fetch_usage", TRUE, FALSE, FetchReturn(r, get_cached_usage))
            /\ UNCHANGED << settings, settings_file, scPc, scArg >>
       ELSE /\ update_settings(set_customer_id(settings, r.customer_id[1]), io)
            /\ IF r.usage_data # None
               THEN /\ scPc' = [scPc EXCEPT ![c] = "f_usage"]
                    /\ scArg' = [scArg EXCEPT ![c] = r]
               ELSE UNCHANGED << scPc, scArg >>
    /\ UNCHANGED << usage_cache, usage_history, history_file >>

\* a variant that stores the identifier of a result before it looks at its error
FetchUsageResult_StoresBeforeErrorCheck(c, r, io) ==
    /\ scPc[c] = "idle"
    /\ IF ~r.ok \/ r.error # None \/ r.customer_id = None
       THEN /\ ret' = Outcome("fetch_usage", TRUE, FALSE, FetchReturn(r, get_cached_usage))
            /\ settings' = IF r.ok /\ r.customer_id # None
                           THEN set_customer_id(settings, r.customer_id[1])
                           ELSE settings
            /\ settings_file' = IF r.ok /\ r.customer_id # None
                                THEN save_settings_to_disk(settings', io)
                                ELSE settings_file
            /\ UNCHANGED << scPc, scArg >>
       ELSE /\ update_settings(set_customer_id(settings, r.customer_id[1]), io)
            /\ IF r.usage_data # None
               THEN /\ scPc' = [scPc EXCEPT ![c] = "f_usage"]
                    /\ scArg' = [scArg EXCEPT ![c] = r]
               ELSE UNCHANGED << scPc, scArg >>
    /\ UNCHANGED << usage_cache, usage_history, history_file >>
    /\ UNCHANGED << pollVars, loopVars, bridgeVars >>

\* fetch_usage given any result its extraction can return
FetchUsageResult(c, r, io) ==
    /\ fetch_usage(c, r, io)
    /\ UNCHANGED << pollVars, loopVars, bridgeVars >>

\* usage.rs lines 72-87: fetch_usage takes the result its own extraction attempt has
\* returned
FetchUsageOfAttempt(c, a, io) ==
    /\ attPc[a] = "done"
    /\ fetch_usage(c, attResult[a], io)
    /\ attPc' = [attPc EXCEPT ![a] = "taken"]
    /\ UNCHANGED << HIDDEN_WEBVIEW_EVENTS, slotLock, chan, hiddenWindow, attAcc, attExit,
                    attResult, pushPc, pushEv, pushBudget, flood >>
    /\ UNCHANGED << pollVars, loopVars >>

\* usage.rs lines 89-96: set_usage(used, limit), its Result dropped
FetchSetUsage(c, io) ==
    /\ scPc[c] = "f_usage"
    /\ update_settings(set_usage(settings, scArg[c].usage_data[1].discount_quantity,
                                 scArg[c].usage_data[1].user_premium_request_entitlement), io)
    /\ scPc' = [scPc EXCEPT ![c] = "f_cache"]
    /\ UNCHANGED << usage_cache, usage_history, history_file, scArg >>
    /\ UNCHANGED << pollVars, loopVars, bridgeVars >>

\* usage.rs lines 99-108: set_usage_cache
FetchSetCache(c) ==
    /\ scPc[c] = "f_cache"
    /\ usage_cache' = Some(CacheOf(scArg[c]))
    /\ scPc' = [scPc EXCEPT ![c] = "f_hist"]
    /\ UNCHANGED << settings, settings_file, usage_history, history_file, scArg, ret >>
    /\ UNCHANGED << pollVars, loopVars, bridgeVars >>

\* usage.rs lines 110-139: the history is stored if the result carries one; the
\* summary of the extracted figures is built, the payload is completed with
\* get_cached_history, both notifications are emitted and the summary is returned
\* (after the history's write, when there is one: those notifications and that return
\* are the same expressions and are not recorded)
FetchSetHistory(c, nowTs) ==
    /\ scPc[c] = "f_hist"
    /\ IF scArg[c].usage_history # None
       THEN set_usage_history(c, map_history_rows(scArg[c].usage_history[1], nowTs))
       ELSE /\ scPc' = [scPc EXCEPT ![c] = "idle"]
            /\ scArg' = [scArg EXCEPT ![c] = << >>]
            /\ ret' = Outcome("fetch_usage", TRUE, TRUE,
                         FetchNotifies(scArg[c],
                             UsageSummary(scArg[c].usage_data[1].discount_quantity,
                                 scArg[c].usage_data[1].user_premium_request_entitlement),
                             get_cached_history))
            /\ UNCHANGED << settings, settings_file, usage_cache, usage_history,
                            history_file >>
            /\ UNCHANGED << pollVars, loopVars, bridgeVars >>

-----------------------------------------------------------------------------
(* UsageManager::predict_usage_from_history *)

RECURSIVE Pow2(_)
Pow2(k) == IF k = 0 THEN 1 ELSE 2 * Pow2(k - 1)

\* the number of bits of a natural number
RECURSIVE BitLen(_)
BitLen(n) == IF n = 0 THEN 0 ELSE 1 + BitLen(n \div 2)

\* a non-negative f32: the value m * 2^e, with m = 0 or a significand of exactly
\* F32MantissaBits bits
F32(m, e) == [ m |-> m, e |-> e ]
F32Zero == F32(0, 0)

\* the f32 nearest to n * 2^e (plus, if sticky, a fraction of 2^e below one half of
\* the last bit kept), ties to even: the rounding of every f32 operation
RoundToF32(n, e, sticky) ==
    IF n = 0 THEN F32Zero
    ELSE LET len == BitLen(n) IN
         IF len <= F32MantissaBits
         THEN F32(n * Pow2(F32MantissaBits - len), e - (F32MantissaBits - len))
         ELSE LET s == len - F32MantissaBits
                  q == n \div Pow2(s)
                  rem == n % Pow2(s)
                  half == Pow2(s - 1)
                  up == rem > half \/ (rem = half /\ (sticky \/ q % 2 = 1))
                  r == IF up THEN q + 1 ELSE q
              IN  IF r = Pow2(F32MantissaBits)
                  THEN F32(Pow2(F32MantissaBits - 1), e + s + 1)
                  ELSE F32(r, e + s)

\* `used as f32`, line 343
U32AsF32(u) == RoundToF32(u, 0, FALSE)

\* a / d in f32, for a day of the month d (exact as an f32), line 343
F32Div(a, d) ==
    IF a.m = 0 THEN F32Zero
    ELSE LET s == CHOOSE k \in 1 .. 6 :
                     /\ (a.m * Pow2(k)) \div d >= Pow2(F32MantissaBits)
                     /\ (a.m * Pow2(k - 1)) \div d < Pow2(F32MantissaBits)
         IN  RoundToF32((a.m * Pow2(s)) \div d, a.e - s, (a.m * Pow2(s)) % d # 0)

\* a * r in f32, for a number of days r (exact as an f32), line 345
F32Mul(a, r) == IF a.m = 0 \/ r = 0 THEN F32Zero ELSE RoundToF32(a.m * r, a.e, FALSE)

\* a + b in f32, line 345
F32Add(a, b) ==
    IF a.m = 0 THEN b
    ELSE IF b.m = 0 THEN a
    ELSE LET e == IF a.e < b.e THEN a.e ELSE b.e
         IN  RoundToF32(a.m * Pow2(a.e - e) + b.m * Pow2(b.e - e), e, FALSE)

\* predicted.max(0.0).round() as u32, line 346: f32::round rounds half away from
\* zero; the cast saturates at u32::MAX, which the values explored stay below
F32RoundAsU32(a) ==
    IF a.m = 0 THEN 0
    ELSE IF a.e >= 0 THEN a.m * Pow2(a.e)
    ELSE IF -a.e > F32MantissaBits THEN 0
    ELSE LET q == a.m \div Pow2(-a.e)
             rem == a.m % Pow2(-a.e)
         IN  IF 2 * rem >= Pow2(-a.e) THEN q + 1 ELSE q

\* lines 329-337: 31 for December, otherwise the days from the first of this month
\* to the first of the next
DaysInMonth(month, leap) ==
    IF month = 12 THEN 31
    ELSE IF month = 2 THEN (IF leap THEN 29 ELSE 28)
    ELSE IF month \in {4, 6, 9, 11} THEN 30
    ELSE 31

\* the dates chrono::Utc::now() can return, as far as the prediction reads them
PredictDates ==
    { dt \in [ month : 1 .. 12, leap : BOOLEAN, day : 1 .. 31 ] :
        dt.day <= DaysInMonth(dt.month, dt.leap) }

\* a variant whose thresholds are one entry higher
ConfidenceLevel_OneHigher(n) ==
    IF n < 4 THEN "low" ELSE IF n < 8 THEN "medium" ELSE "high"

\* lines 350-356
ConfidenceLevel(n) ==
    IF n < 3 THEN "low" ELSE IF n < 7 THEN "medium" ELSE "high"

\* UsagePrediction; the billed amount is kept as the number of requests billed and
\* the price of one, whose product it is
UsagePrediction(requests, excess, confidence, days) ==
    [ predicted_monthly_requests |-> requests,
      predicted_billed_amount |-> [ requests |-> excess, cents_each |-> PricePerRequestCents ],
      confidence_level |-> confidence,
      days_used_for_prediction |-> days ]

\* lines 327-363: the prediction for a non-empty history
PredictionOf(history, used, limit, date) ==
    LET current_day == date.day
        days_in_month == DaysInMonth(date.month, date.leap)
    IN  IF current_day = 0 THEN None
        ELSE LET daily_average == F32Div(U32AsF32(used), current_day)
                 remaining_days == days_in_month - current_day
                 predicted == F32Add(U32AsF32(used), F32Mul(daily_average, remaining_days))
                 predicted_monthly_requests == F32RoundAsU32(predicted)
                 excess_requests == IF predicted_monthly_requests >= limit
                                    THEN predicted_monthly_requests - limit ELSE 0
             IN  Some(UsagePrediction(predicted_monthly_requests, excess_requests,
                                      ConfidenceLevel(Len(history)), Len(history)))

\* a variant that wants two entries before it predicts
predict_usage_from_history_NeedsTwo(history, used, limit, date) ==
    IF Len(history) < 2 THEN None ELSE PredictionOf(history, used, limit, date)

\* UsageManager::predict_usage_from_history, lines 318-364; date is what
\* chrono::Utc::now() returns
predict_usage_from_history(history, used, limit, date) ==
    IF history = << >> THEN None ELSE PredictionOf(history, used, limit, date)

\* the histories, usage counters and limits the prediction is explored with: the
\* counters include one that an f32 does not hold exactly
PredictHistories ==
    { [ i \in 1 .. n |-> UsageEntry(90 - i, 10, 0) ] : n \in 0 .. MaxPredictHist }
PredictUsed == (0 .. MaxFigure) \cup {1500, Pow2(F32MantissaBits) + 1}
PredictLimits == {0, 300}

\* one call of predict_usage_from_history: its arguments, the date it read and what
\* it returned
PredictUsage(history, used, limit, date) ==
    /\ ret.fn # "predict_usage_from_history"
    /\ ret' = Outcome("predict_usage_from_history", TRUE, FALSE,
                      [ history |-> history, used |-> used, limit |-> limit,
                        day |-> date.day,
                        days_in_month |-> DaysInMonth(date.month, date.leap),
                        prediction |-> predict_usage_from_history(history, used, limit, date) ])
    /\ UNCHANGED << settings, settings_file, usage_cache, usage_history, history_file,
                    scPc, scArg >>
    /\ UNCHANGED << pollVars, loopVars, bridgeVars >>

-----------------------------------------------------------------------------
(* TrayIconRenderer::render_text *)

\* GlyphBitmap; advance is glyph.advance.round() as i32
GlyphBitmap(width, height, xmin, ymin, advance, alpha) ==
    [ width |-> width, height |-> height, xmin |-> xmin, ymin |-> ymin,
      advance |-> advance, alpha |-> alpha ]

\* the glyphs of the test (a blank of one pixel, a block of two by two), the block
\* with an origin that puts part of it, or all of it, off the canvas, and a glyph
\* whose alpha vector is shorter than its area
BlankGlyph == GlyphBitmap(1, 1, 0, 0, 1, << 0 >>)
BlockGlyph(xmin, ymin) == GlyphBitmap(2, 2, xmin, ymin, 2, << 255, 128, 64, 32 >>)
ShortGlyph == GlyphBitmap(2, 1, 0, 0, 2, << 200 >>)

\* DigitAtlas.glyphs, indexed by the digit: 1 is a block, 7 the short glyph, the
\* others are blank
AtlasInputs ==
    { [ d \in 0 .. 9 |-> IF d = 1 THEN BlockGlyph(xmin, ymin)
                         ELSE IF d = 7 THEN ShortGlyph ELSE BlankGlyph ] :
        xmin \in {-1, 0}, ymin \in {-2, 0, 1} }

\* the characters of the texts rendered, and the texts
TextChars == {"1", "7", "a", "%"}
TextInputs == UNION { [1 .. n -> TextChars] : n \in 0 .. MaxTextLen }

DigitChars == << "0", "1", "2", "3", "4", "5", "6", "7", "8", "9" >>

\* a variant that reads the percent sign as the digit 0
to_digit_PercentIsZero(ch) ==
    IF \E d \in 0 .. 9 : DigitChars[d + 1] = ch
    THEN Some(CHOOSE d \in 0 .. 9 : DigitChars[d + 1] = ch)
    ELSE IF ch = "%" THEN Some(0) ELSE None

\* ch.to_digit(10), lines 123-126
to_digit(ch) ==
    IF \E d \in 0 .. 9 : DigitChars[d + 1] = ch
    THEN Some(CHOOSE d \in 0 .. 9 : DigitChars[d + 1] = ch)
    ELSE None

\* *glyph.alpha.get(src_index).unwrap_or(&0), line 145
AlphaAt(glyph, src_index) ==
    IF src_index < Len(glyph.alpha) THEN glyph.alpha[src_index + 1] ELSE 0

\* lines 134-152: the pixels of one glyph that pass both bounds tests, each with the
\* index of its first byte and its alpha
GlyphWrites(glyph, glyph_x, glyph_y, size_px) ==
    { [ dst_index |-> ((glyph_y + yx[1]) * size_px + (glyph_x + yx[2])) * BytesPerPixel,
        a |-> AlphaAt(glyph, yx[1] * glyph.width + yx[2]) ] :
      yx \in { p \in (0 .. glyph.height - 1) \X (0 .. glyph.width - 1) :
                 /\ ~(glyph_y + p[1] < 0 \/ glyph_y + p[1] >= size_px)
                 /\ ~(glyph_x + p[2] < 0 \/ glyph_x + p[2] >= size_px) } }

\* the buffer after those writes (bytes are numbered from 1 here); ok is whether
\* every index was inside the buffer, an index outside being a panic
DrawGlyph(canvas, glyph, glyph_x, glyph_y, size_px) ==
    LET writes == GlyphWrites(glyph, glyph_x, glyph_y, size_px)
        Hits(i) == { w \in writes : i - 1 \in w.dst_index .. w.dst_index + BytesPerPixel - 1 }
    IN  [ rgba |-> [ i \in 1 .. Len(canvas.rgba) |->
                       IF Hits(i) # {} THEN (CHOOSE w \in Hits(i) : TRUE).a
                       ELSE canvas.rgba[i] ],
          ok |-> /\ canvas.ok
                 /\ \A w \in writes :
                      w.dst_index >= 0 /\ w.dst_index + BytesPerPixel <= Len(canvas.rgba) ]

\* lines 122-155: the loop over the characters of the text
RECURSIVE DrawText(_, _, _, _, _)
DrawText(atlas, text, size_px, canvas, pen_x) ==
    IF text = << >> THEN canvas
    ELSE LET digit == to_digit(Head(text)) IN
         IF digit = None
         THEN DrawText(atlas, Tail(text), size_px, canvas, pen_x)
         ELSE LET glyph == atlas[digit[1]]
                  baseline == size_px - 3
                  glyph_x == pen_x + glyph.xmin
                  glyph_y == baseline - glyph.ymin - glyph.height
              IN  DrawText(atlas, Tail(text), size_px,
                           DrawGlyph(canvas, glyph, glyph_x, glyph_y, size_px),
                           pen_x + glyph.advance)

\* TrayIconRenderer::render_text, lines 110-158: a cleared pixmap of size_px by
\* size_px, the glyphs drawn from pen_x = 1
render_text(atlas, text, size_px) ==
    LET cleared == [ rgba |-> [ i \in 1 .. size_px * size_px * BytesPerPixel |-> 0 ],
                     ok |-> TRUE ]
        drawn == DrawText(atlas, text, size_px, cleared, 1)
    IN  [ rgba |-> drawn.rgba, width |-> size_px, height |-> size_px, ok |-> drawn.ok ]

\* one call of render_text: its arguments and the TrayImage it returned (ok is
\* FALSE if it panicked instead)
RenderText(atlas, text, size_px) ==
    /\ ret.fn # "render_text"
    /\ LET image == render_text(atlas, text, size_px) IN
       ret' = Outcome("render_text", image.ok, FALSE,
                      [ atlas |-> atlas, text |-> text, size_px |-> size_px,
                        image |-> image ])
    /\ UNCHANGED << settings, settings_file, usage_cache, usage_history, history_file,
                    scPc, scArg >>
    /\ UNCHANGED << pollVars, loopVars, bridgeVars >>

-----------------------------------------------------------------------------
(* Properties of the Scheduler (SpecPolling) *)

\* a polling loop task that has been spawned and has not exited
LoopAlive(l) == loopPc[l] \in {"spawned", "select", "fetching"}

\* stop_polling has returned and no restart_polling or stop_polling call is in progress
StopReturnedAndQuiet == is_shutting_down /\ \A t \in Threads : thrPc[t] = "idle"

\* C1: once stop_polling has returned and every concurrent restart_polling has
\* returned, cancel_tx holds no sender and no polling loop is left running without
\* a cancellation (a signal in its channel, or its sender dropped).
C1_NoRestartTakesEffectAfterStop ==
    StopReturnedAndQuiet =>
        /\ cancel_tx = None
        /\ \A l \in Loops : LoopAlive(l) => (cancelBuf[l] > 0 \/ ~cancelTxAlive[l])

\* C2: in every reachable state at most one polling loop task is alive.
C2_AtMostOneLoopAlive == Cardinality({ l \in Loops : LoopAlive(l) }) <= 1

\* C17: a restart_polling call made while the shutting-down flag is set is a no-op:
\* it does not go on to the debounce or the spawn, so it spawns no loop, sends no
\* cancellation and leaves cancel_tx, last_restart and last_interval as they are.
C17_RestartIgnoredWhenShuttingDown ==
    [][\A t \in Threads :
         (is_shutting_down /\ thrPc[t] = "idle" /\ thrPc'[t] # "idle") =>
            /\ thrPc'[t] \notin {"r_debounce", "r_spawn"}
            /\ cancel_tx' = cancel_tx
            /\ last_restart' = last_restart /\ last_interval' = last_interval
            /\ loopPc' = loopPc /\ cancelBuf' = cancelBuf]_vars

\* polling ran and was stopped, and a thread is free to call restart_polling
C17_Witness ==
    /\ is_shutting_down /\ cancel_tx = None
    /\ \A t \in Threads : thrPc[t] = "idle"
    /\ FreeLoops # {}
    /\ \E l \in Loops : loopPc[l] = "exited"

\* the restart_polling call of thread t is at its debounce, with the interval of the
\* last accepted restart and less than the debounce window after it
DuplicateRestart(t) ==
    /\ thrPc[t] = "r_debounce"
    /\ last_interval = thrArg[t]
    /\ now - last_restart < POLLING_RESTART_DEBOUNCE_MS

\* C18: a restart_polling(i) call less than 500 ms after the last accepted restart,
\* with the same interval, is a no-op: it returns without spawning a loop or
\* cancelling the running one, and cancel_tx, last_restart, last_interval are unchanged.
C18_DuplicateRestartIsNoOp ==
    [][\A t \in Threads :
         (DuplicateRestart(t) /\ thrPc'[t] # "r_debounce") =>
            /\ thrPc'[t] = "idle"
            /\ cancel_tx' = cancel_tx
            /\ last_restart' = last_restart /\ last_interval' = last_interval
            /\ loopPc' = loopPc /\ cancelBuf' = cancelBuf
            /\ cancelTxAlive' = cancelTxAlive]_vars

\* a duplicate restart request is at its debounce while the loop of the accepted
\* restart is running
C18_Witness ==
    \E t \in Threads :
        /\ DuplicateRestart(t)
        /\ cancel_tx # None /\ LoopAlive(cancel_tx[1])
        /\ loopInterval[cancel_tx[1]] = thrArg[t]

\* C19: a polling loop starts no fetch when it is spawned: it first skips the
\* immediate tick, and every fetch starts from select! on a tick that became due by
\* a full interval elapsing; a loop that exits before that has fetched nothing.
C19_NoFetchBeforeFirstInterval ==
    [][\A l \in Loops :
         /\ (loopPc[l] = "spawned" /\ loopPc'[l] # "spawned") => loopPc'[l] = "select"
         /\ (loopPc[l] # "fetching" /\ loopPc'[l] = "fetching") =>
               (loopPc[l] = "select" /\ tickDue[l])]_vars

\* one loop is in its fetch, another was cancelled and has exited
C19_Witness ==
    \E l, m \in Loops : l # m /\ loopPc[l] = "fetching" /\ loopPc[m] = "exited"

\* C20: a polling loop exits only from select!, on its cancellation signal or on its
\* sender being dropped; a returning fetch and a tick skipped because the Store is
\* unauthenticated leave it waiting for the next tick.
C20_LoopExitsOnlyOnCancel ==
    [][\A l \in Loops :
         /\ (loopPc[l] # "exited" /\ loopPc'[l] = "exited") =>
               (loopPc[l] = "select" /\ (cancelBuf[l] > 0 \/ ~cancelTxAlive[l]))
         /\ (loopPc[l] = "fetching" /\ loopPc'[l] # "fetching") => loopPc'[l] = "select"
         /\ (loopPc[l] = "select" /\ tickDue[l] /\ ~tickDue'[l] /\ ~is_authenticated
               /\ loopPc'[l] # "exited") => loopPc'[l] = "select"]_vars

\* a loop is in its fetch; another is at select! with a tick due and the Store
\* unauthenticated (the fetch began
\* before the logout)
C20_Witness ==
    \E l, m \in Loops :
        /\ l # m
        /\ loopPc[l] = "fetching"
        /\ loopPc[m] = "select" /\ tickDue[m] /\ ~is_authenticated

\* C22: every interval that reaches restart_polling, and through it start_polling,
\* is at least 10 seconds, for every refresh_interval value a menu item or the
\* stored settings can carry, 0 and the values below 10 included.
C22_IntervalAtLeastMinimum ==
    /\ \A t \in Threads : thrPc[t] \in {"r_debounce", "r_spawn"} => thrArg[t] >= MinInterval
    /\ \A l \in Loops : loopPc[l] # "unspawned" => loopInterval[l] >= MinInterval
    /\ last_interval # 0 => last_interval >= MinInterval

\* a loop runs with the minimum interval: RefreshValues holds no 10, so the value
\* requested was 0 or 5
C22_Witness ==
    /\ MinInterval \notin RefreshValues
    /\ \E l \in Loops : loopPc[l] = "select" /\ loopInterval[l] = MinInterval

\* loop l takes a due tick in select! (the other branch, the cancellation, exits)
TakesTick(l) ==
    /\ loopPc[l] = "select" /\ tickDue[l] /\ ~tickDue'[l]
    /\ loopPc'[l] # "exited"

\* C21: on a polling tick the fetch (and with it the orchestrator) is started exactly
\* when the Store reports authenticated at that tick; a tick taken while the Store
\* is unauthenticated changes nothing in the Store nor in the bridge: no hidden
\* window, no sender in the slot, no write, and the loop starts no fetch.
C21_FetchOnlyWhenAuthenticated ==
    [][\A l \in Loops :
         /\ TakesTick(l) => (loopPc'[l] = "fetching" <=> is_authenticated)
         /\ (TakesTick(l) /\ ~is_authenticated) =>
               /\ UNCHANGED << storeVars, bridgeVars >>
               /\ \A m \in Loops : loopPc'[m] # "fetching" \/ loopPc[m] = "fetching"]_vars

\* a tick is due in a loop with no cancellation pending, after a logout has cleared
\* the identifier in the Store
C21_Witness ==
    \E l \in Loops :
        /\ loopPc[l] = "select" /\ tickDue[l]
        /\ cancelBuf[l] = 0 /\ cancelTxAlive[l]
        /\ ~is_authenticated
        /\ ret.fn = "update_settings" /\ ret.ok

\* C36: the shutdown of the Scheduler is terminal: once stop_polling has set
\* is_shutting_down (called by quit or by logout) the flag stays set, whatever
\* happens to the Store afterwards, a new login included; and no restart_polling
\* call made from then on passes the check: it returns at once, so the only loops
\* spawned under the flag belong to calls that had passed the check before.
C36_ShutdownIsTerminal ==
    [][is_shutting_down =>
          /\ is_shutting_down'
          /\ \A t \in Threads :
                thrPc[t] = "idle" => thrPc'[t] \notin {"r_debounce", "r_spawn"}
          /\ \A l \in Loops :
                (loopPc[l] = "unspawned" /\ loopPc'[l] # "unspawned") =>
                    \E t \in Threads : thrPc[t] = "r_spawn" /\ thrPc'[t] = "idle"]_vars

\* the flag is set, the loop that ran has exited, the last call on the Store was a
\* login that succeeded, and a thread is free to call restart_polling
C36_Witness ==
    /\ is_shutting_down /\ cancel_tx = None
    /\ is_authenticated /\ ret.fn = "update_settings" /\ ret.ok
    /\ \A t \in Threads : thrPc[t] = "idle"
    /\ FreeLoops # {}
    /\ \E l \in Loops : loopPc[l] = "exited"
    /\ \A l \in Loops : ~LoopAlive(l)

-----------------------------------------------------------------------------
(* Properties of the bridge and the orchestrator (SpecExtract) *)

\* an attempt between the installation of its sender and its return
InFlight(a) == attPc[a] \in {"create", "recv", "teardown"}

\* C3: two extraction attempts are never in flight at the same time.
C3_OneAttemptInFlight == Cardinality({ a \in Attempts : InFlight(a) }) <= 1

\* C4: the sender slot is Some only while an attempt is in flight; once every
\* perform_extraction call has returned the slot is None.
C4_SlotNoneAfterReturn ==
    (\A a \in Attempts : ~InFlight(a)) => HIDDEN_WEBVIEW_EVENTS = None

\* C5: a hidden_webview_event call that finds the channel full drops the event and
\* returns: no invocation is ever left waiting for room in the channel.
C5_FullChannelDropsPush == \A p \in Pushers : pushPc[p] # "blocked"

\* C6: the teardown of an attempt can always get the slot's lock: it never waits on
\* an invocation that holds the lock while it waits for room in the channel of that
\* very attempt, which nobody receives from any more.
C6_TeardownNeverBlocked ==
    ~ \E a \in Attempts, p \in Pushers :
        /\ attPc[a] = "teardown"
        /\ slotLock = Some(p)
        /\ HIDDEN_WEBVIEW_EVENTS = Some(a)
        /\ Len(chan[a]) = ChannelCapacity

\* C7: an attempt whose deadline expires returns error "Extraction timed out" and
\* no customer id, usage data or usage history, whatever it had received before.
C7_TimeoutResult ==
    \A a \in Attempts :
        (attPc[a] = "done" /\ attExit[a] = "timeout") =>
            attResult[a] = ExtractionResult(TRUE, None, None, None,
                                            Some("Extraction timed out"))

\* an attempt timed out and returned after it had received an identifier and usage data
C7_Witness ==
    \E a \in Attempts :
        /\ attPc[a] = "done" /\ attExit[a] = "timeout"
        /\ attAcc[a].customer_id # None /\ attAcc[a].usage_data # None

PushWithoutSender == HIDDEN_WEBVIEW_EVENTS = None /\ pushBudget' < pushBudget

\* C23: a hidden_webview_event call made while no sender is installed returns
\* without changing anything: the slot stays None, no channel gains an event, no
\* invocation is left waiting; and an attempt that begins later starts from an empty
\* channel of its own, so it never receives that event.
C23_PushWithoutSenderIsNoOp ==
    [][/\ PushWithoutSender =>
            /\ HIDDEN_WEBVIEW_EVENTS' = None
            /\ UNCHANGED << slotLock, chan, hiddenWindow, attPc, attAcc, attExit,
                            attResult, pushPc, pushEv >>
            /\ UNCHANGED << pollVars, loopVars, storeVars >>
       /\ \A a \in Attempts :
            /\ attPc'[a] = "idle" => chan'[a] = << >>
            /\ Len(chan'[a]) > Len(chan[a]) => HIDDEN_WEBVIEW_EVENTS = Some(a)]_vars

\* events of the script have been pushed before any attempt installed a sender
C23_Witness ==
    /\ ~flood /\ pushBudget < MaxPushes
    /\ HIDDEN_WEBVIEW_EVENTS = None
    /\ \A a \in Attempts : attPc[a] = "idle" /\ chan[a] = << >>

\* the receive loop of attempt a takes an event from its channel in this step
Receives(a) == attPc[a] = "recv" /\ Len(chan'[a]) < Len(chan[a])
\* an event is added to the channel of attempt a in this step
Pushed(a) == Len(chan'[a]) > Len(chan[a])

\* C30: within one attempt the events are processed in the order they were pushed:
\* a push adds its event behind those already waiting, the loop always takes the
\* oldest one, so the terminal event is processed only after every event pushed
\* before it, whose effect is in the accumulators the result is built from; once
\* the terminal event is processed the loop is left and the events still waiting
\* are never processed.
C30_EventsProcessedInPushOrder ==
    [][\A a \in Attempts :
         /\ Pushed(a) =>
               /\ Len(chan'[a]) = Len(chan[a]) + 1
               /\ SubSeq(chan'[a], 1, Len(chan[a])) = chan[a]
         /\ Receives(a) =>
               /\ chan'[a] = Tail(chan[a])
               /\ IF Head(chan[a]).event = "auth:extraction:complete"
                  THEN /\ attPc'[a] = "teardown" /\ attExit'[a] = "complete"
                       /\ attAcc'[a] = attAcc[a]
                  ELSE /\ attPc'[a] = "recv"
                       /\ attAcc'[a] = ProcessEvent(attAcc[a], Head(chan[a]))
         /\ attPc[a] \in {"teardown", "done"} => attAcc'[a] = attAcc[a]
         /\ (attPc[a] = "teardown" /\ attPc'[a] = "done" /\ attExit[a] = "complete") =>
               /\ attResult'[a].customer_id = attAcc[a].customer_id
               /\ attResult'[a].usage_data = attAcc[a].usage_data
               /\ attResult'[a].usage_history = attAcc[a].usage_history
               /\ attResult'[a].error = attAcc[a].error]_vars

\* the channel of a receiving attempt holds an identifier event, behind it the
\* terminal event, and behind that a usage event
C30_Witness ==
    \E a \in Attempts :
        /\ attPc[a] = "recv" /\ Len(chan[a]) >= 3
        /\ chan[a][1].event = "auth:extraction:customer"
        /\ chan[a][1].payload.success = Some(TRUE)
        /\ chan[a][2].event = "auth:extraction:complete"
        /\ chan[a][3].event = "auth:extraction:usage"

\* C31: an attempt whose channel closed before the terminal event was received
\* returns a result with its error set.
C31_ClosedChannelFails ==
    \A a \in Attempts :
        (attPc[a] = "done" /\ attExit[a] = "closed") => attResult[a].error # None

\* attempt a installs its sender in this step
Installs(a) == attPc[a] = "idle" /\ attPc'[a] = "create"
\* attempt a clears the slot and returns in this step
TearsDown(a) == attPc[a] = "teardown" /\ attPc'[a] = "done"

\* C40: the attempts are isolated from each other: the installation of a sender
\* never replaces the sender of an attempt that is still in flight (which closes
\* its channel), the teardown of an attempt clears the slot only when the slot
\* holds this attempt's own sender, and an event is added only to the channel of
\* the attempt whose sender the slot holds.
C40_AttemptsIsolated ==
    [][\A a \in Attempts :
         /\ Installs(a) =>
               ~ \E b \in Attempts : b # a /\ InFlight(b) /\ HIDDEN_WEBVIEW_EVENTS = Some(b)
         /\ TearsDown(a) => HIDDEN_WEBVIEW_EVENTS \in {None, Some(a)}
         /\ Pushed(a) => HIDDEN_WEBVIEW_EVENTS = Some(a)]_vars

\* the identifier event reports a failure: its payload is JSON and "success" is not true
IdentifierFailure(ev) ==
    /\ ev.event = "auth:extraction:customer"
    /\ ev.payload.json /\ ev.payload.success # Some(TRUE)

\* C32: when the identifier event (the first event of an attempt) reports
\* success = false, the accumulators the result is built from have the error set
\* and no customer id, for every such payload.
C32_IdentifierFailureSetsError ==
    [][\A a \in Attempts :
         (Receives(a) /\ attAcc[a] = EmptyAcc /\ IdentifierFailure(Head(chan[a]))) =>
            /\ attAcc'[a].error # None
            /\ attAcc'[a].customer_id = None]_vars

\* an event the loop drops: an identifier or usage event whose payload is not JSON,
\* or an event of a name the loop does not know
Dropped(ev) ==
    \/ ev.event \in {"auth:extraction:customer", "auth:extraction:usage"} /\ ~ev.payload.json
    \/ ev.event \notin {"auth:extraction:customer", "auth:extraction:usage",
                        "auth:extraction:complete"}

\* C34: an identifier or usage event whose payload is not valid JSON, and an event
\* of an unknown name, is dropped by itself: the four accumulators stay as they
\* are, the sender stays installed, the window open, and the attempt stays in its
\* receive loop with the later events of the channel still waiting, in their order.
C34_MalformedEventDropped ==
    [][\A a \in Attempts :
         (Receives(a) /\ Dropped(Head(chan[a]))) =>
            /\ attAcc' = attAcc
            /\ attPc'[a] = "recv" /\ attExit' = attExit
            /\ chan'[a] = Tail(chan[a])
            /\ HIDDEN_WEBVIEW_EVENTS' = HIDDEN_WEBVIEW_EVENTS
            /\ hiddenWindow' = hiddenWindow /\ attResult' = attResult]_vars

\* an attempt that has received an identifier finds a usage event that is not JSON at
\* the head of its channel, and a well-formed usage event behind it
C34_Witness ==
    \E a \in Attempts :
        /\ attPc[a] = "recv" /\ attAcc[a].customer_id # None
        /\ Len(chan[a]) >= 2
        /\ chan[a][1].event = "auth:extraction:usage" /\ ~chan[a][1].payload.json
        /\ chan[a][2].event = "auth:extraction:usage" /\ chan[a][2].payload.json

-----------------------------------------------------------------------------
(* Properties of the injected script (SpecScript) *)

ScriptReturned == ret.fn = "runExtraction"
ScriptArgs == ret.arg
ScriptRun == ret.arg.run

\* the three strategies in their order, and what each gives on the page
StrategyOrder == << "getUserId", "getCustomerIdFromDOM", "getCustomerIdFromHTML" >>
StrategyGives(i) ==
    CASE i = 1 -> getUserId(ScriptArgs.api)
      [] i = 2 -> getCustomerIdFromDOM(ScriptArgs.dom)
      [] OTHER -> getCustomerIdFromHTML(ScriptArgs.html)

\* the strategies the script called: its calls up to the first usage request
StrategiesCalled ==
    LET calls == ScriptRun.calls
        n == Cardinality({ i \in 1 .. Len(calls) : calls[i] \in
                             { StrategyOrder[k] : k \in 1 .. Len(StrategyOrder) } })
    IN  SubSeq(calls, 1, n)

\* C33: the script calls the identifier strategies in the order API, embedded data,
\* HTML; it stops at the first that succeeds, whose result it reports, and calls the
\* next one only when all before it failed.  When all three fail it makes no usage
\* request and hands to sendResult the identifier-failure event and then the
\* terminal event, and nothing else: no usage event.  (When one succeeds it makes
\* the two usage requests and sends identifier, usage and terminal event.)
C33_StrategiesInOrderFirstSuccessWins ==
    ScriptReturned =>
      LET n == Len(StrategiesCalled)
          sent == ScriptRun.invoked \o ScriptRun.stored
      IN  /\ n >= 1 /\ StrategiesCalled = SubSeq(StrategyOrder, 1, n)
          /\ \A i \in 1 .. n - 1 : ~StrategyGives(i).success
          /\ n < Len(StrategyOrder) => StrategyGives(n).success
          /\ ScriptRun.result = StrategyGives(n)
          /\ ScriptRun.stored = << >> \/ ScriptRun.invoked = << >>
          /\ IF \A i \in 1 .. Len(StrategyOrder) : ~StrategyGives(i).success
             THEN /\ ScriptRun.calls = StrategyOrder
                  /\ Len(sent) = 2
                  /\ sent[1].event = "auth:extraction:customer"
                  /\ sent[1].payload.success = Some(FALSE)
                  /\ sent[1].payload.error = StrategyGives(Len(StrategyOrder)).error
                  /\ sent[2].event = "auth:extraction:complete"
                  /\ \A i \in 1 .. Len(sent) : sent[i].event # "auth:extraction:usage"
             ELSE /\ ScriptRun.calls = StrategiesCalled \o << "fetchUsageCard", "fetchUsageTable" >>
                  /\ Len(sent) = 3
                  /\ sent[1].event = "auth:extraction:customer"
                  /\ sent[1].payload.success = Some(TRUE)
                  /\ sent[1].payload.id = StrategyGives(n).id
                  /\ sent[2].event = "auth:extraction:usage"
                  /\ sent[3].event = "auth:extraction:complete"

\* the script has run on a page where all three strategies fail, and its two events
\* went to hidden_webview_event
C33_Witness ==
    /\ ScriptReturned /\ ret.wrote
    /\ ScriptArgs.api \in {"status", "throws"}
    /\ ScriptArgs.dom # "found" /\ ScriptArgs.html # "match"
    /\ Len(ScriptRun.invoked) = 2 /\ Len(ScriptRun.calls) = Len(StrategyOrder)

-----------------------------------------------------------------------------
(* Properties of the Store (SpecStore) *)

\* C9: settings.is_authenticated is true exactly when settings.customer_id is Some.
C9_AuthenticatedIffCustomerId ==
    settings.is_authenticated <=> (settings.customer_id # None)

\* the logout command returns Ok
LogoutReturns ==
    \E t \in Threads : thrOp[t] = "logout" /\ thrPc[t] = "s_cancel" /\ thrPc'[t] = "idle"

\* reset_settings returns Ok
ResetReturns ==
    \E c \in Callers : scPc[c] = "reset_file" /\ scPc'[c] = "idle" /\ history_file' = None

\* C10: when the logout command returns, and when reset_settings returns,
\* get_usage_history is empty.
C10_HistoryClearedOnLogoutAndReset ==
    [][(LogoutReturns \/ ResetReturns) => usage_history' = << >>]_vars

\* the list stored in usage_history.json; an absent file loads as the empty list
FileHistory == IF history_file = None THEN << >> ELSE history_file[1]

\* C11: in every reachable state the usage history is ordered by timestamp,
\* descending: each entry's timestamp is at least the next entry's.
C11_HistoryDescending ==
    \A i \in 1 .. Len(usage_history) - 1 :
        usage_history[i].timestamp >= usage_history[i + 1].timestamp

\* C13: with no I/O failure, once no set_usage_history call is in progress the
\* history file holds the in-memory history.
C13_FileEqualsMemoryWhenQuiet ==
    (\A c \in Callers : scPc[c] = "idle") => FileHistory = usage_history

\* fetch_usage passes line 110 with the figures of a successful extraction stored
FetchStoresHistory(c) == scPc[c] = "f_hist" /\ scPc'[c] # "f_hist"

\* the rows of the usage table an extraction yielded, none if it yielded no table
RowsOf(r) == IF r.usage_history = None THEN << >> ELSE r.usage_history[1]

\* C12 as stated: after every successful extraction the history is exactly the list
\* mapped from that attempt's usage-table rows, and nothing of the prior list remains.
C12_HistoryReplacedOnSuccess ==
    [][\A c \in Callers :
         FetchStoresHistory(c) =>
           \E nowTs \in NowValues :
              usage_history' = map_history_rows(RowsOf(scArg[c]), nowTs)]_vars

\* C12, for the extractions that yield a usage table: the history is exactly the list
\* mapped from the table's rows; the prior list is replaced, not appended to.
C12_HistoryReplacedWhenTableExtracted ==
    [][\A c \in Callers :
         (FetchStoresHistory(c) /\ scArg[c].usage_history # None) =>
           \E nowTs \in NowValues :
              usage_history' = map_history_rows(scArg[c].usage_history[1], nowTs)]_vars

\* a fetch has stored its figures and a non-empty history, which is being written over
\* a different non-empty list in the file
C12_Witness ==
    \E c \in Callers :
        /\ scPc[c] = "hist_write" /\ scArg[c] = usage_history /\ usage_history # << >>
        /\ settings.usage_limit \in { u.user_premium_request_entitlement : u \in UsageCards }
        /\ usage_cache # None
        /\ history_file # None /\ FileHistory # << >> /\ FileHistory # usage_history

\* fetch_usage returns in this step, having been given a failed extraction: Err, or
\* Ok with the error set (a timeout, or an error event of the script)
FetchFailedReturns ==
    /\ ret' # ret /\ ret'.fn = "fetch_usage"
    /\ ~ret'.arg.result.ok \/ ret'.arg.result.error # None

\* C24: when the extraction attempt ended with an error, fetch_usage returns Ok with
\* the summary of the Store's cached (last_usage, usage_limit) and leaves the
\* settings, the usage cache, the history and both files as they were, whatever
\* the failed result carries besides the error.
C24_FailedFetchFallsBackAndWritesNothing ==
    [][FetchFailedReturns =>
          /\ ret'.ok
          /\ ret'.arg.summary.used = settings.last_usage
          /\ ret'.arg.summary.limit = settings.usage_limit
          /\ UNCHANGED << settings, settings_file, usage_cache, usage_history,
                          history_file, scPc, scArg >>]_vars

\* a fetch given a result that carries an error together with an identifier and
\* figures has returned, after an earlier fetch had stored other figures
C24_Witness ==
    /\ ret.fn = "fetch_usage" /\ ret.ok
    /\ ret.arg.result.error # None
    /\ ret.arg.result.has_customer_id /\ ret.arg.result.has_usage_data
    /\ ret.arg.summary.limit # DefaultUsageLimit
    /\ usage_cache # None

\* the summary a fetch_usage call has returned
ReturnedSummary == ret.arg.summary

\* C25: every usage snapshot fetch_usage returns, built from extracted figures or
\* from the cached ones, has remaining = limit - used when used <= limit and
\* remaining = 0 when used > limit, and a percentage of 0 when limit = 0.
C25_SnapshotArithmetic ==
    ret.fn = "fetch_usage" =>
        /\ ReturnedSummary.used <= ReturnedSummary.limit =>
              ReturnedSummary.remaining = ReturnedSummary.limit - ReturnedSummary.used
        /\ ReturnedSummary.used > ReturnedSummary.limit => ReturnedSummary.remaining = 0
        /\ ReturnedSummary.limit = 0 => ReturnedSummary.percentage[1] = 0

\* a fetch has returned the snapshot of extracted figures with a limit of 0 and a
\* usage above it
C25_Witness ==
    /\ ret.fn = "fetch_usage" /\ ret.wrote
    /\ ReturnedSummary.limit = 0 /\ ReturnedSummary.used > 0

\* fetch_usage emits its two notifications in this step
FetchEmits == ret' # ret /\ ret'.fn = "fetch_usage" /\ ret'.wrote

\* C35: the notifications of a successful extraction are 'usage:data' and then
\* 'usage:updated', emitted by the step that follows the stores of the identifier, of
\* the figures and of the cache, and the used, limit and history they carry are the
\* ones the Store returns at that moment (get_usage, get_usage_history).
C35_NotificationsCarryCommittedState ==
    [][FetchEmits =>
          LET emitted == ret'.arg.emitted IN
          /\ \E c \in Callers : scPc[c] = "f_hist" /\ scPc'[c] = "idle"
          /\ emitted[1].event = "usage:data" /\ emitted[2].event = "usage:updated"
          /\ \A i \in 1 .. 2 :
                LET summary == IF i = 1 THEN emitted[i].payload.summary
                               ELSE emitted[i].payload IN
                << summary.used, summary.limit >> = get_usage'
          /\ emitted[1].payload.history = get_usage_history']_vars

\* the cancellation sender of loop l has been taken out of PollingState by a
\* restart_polling or a stop_polling call and dropped
SenderDropped(l) == loopPc[l] # "unspawned" /\ ~cancelTxAlive[l]

\* C38: every polling loop whose cancellation sender has been taken and dropped by an
\* accepted restart_polling or by stop_polling exits in the end, wherever it was
\* and whether the try_send of the cancellation succeeded or not, and a loop that has
\* exited takes no further step: it starts no further fetch.
C38_CancelledLoopExits ==
    /\ \A l \in Loops : SenderDropped(l) ~> (loopPc[l] = "exited")
    /\ [][\A l \in Loops : loopPc[l] = "exited" => loopPc'[l] = "exited"]_vars

\* no logout and no reset is in progress, and the Store is unauthenticated
LoggedOut ==
    /\ ~is_authenticated /\ settings.customer_id = None
    /\ \A t \in Threads : thrPc[t] = "idle"
    /\ \A c \in Callers : scPc[c] \notin {"reset_cache", "reset_hist", "reset_file"}

\* a fetch_usage call takes the result of its attempt, or stores a part of it
FetchStores ==
    \/ \E a \in Attempts : attPc[a] = "done" /\ attPc'[a] = "taken"
    \/ \E c \in Callers : /\ scPc[c] \in {"f_usage", "f_cache", "f_hist", "hist_write"}
                          /\ scPc'[c] # scPc[c]

\* C37: once a logout or a reset has returned and until the next login, a fetch whose
\* extraction attempt was started before changes neither the identifier and the
\* authenticated flag nor the stored figures, cache and history when it completes.
C37_InFlightFetchDoesNotReauthenticate ==
    [][(LoggedOut /\ FetchStores) =>
          UNCHANGED << settings, usage_cache, usage_history >>]_vars

\* a predict_usage_from_history call has returned; its arguments and its result
PredictReturned == ret.fn = "predict_usage_from_history"
PredictArgs == ret.arg
Predicted == ret.arg.prediction

\* C26: predict_usage_from_history returns nothing for an empty history, whatever
\* used and limit are, and a prediction for every non-empty history, whatever the
\* date; days_used_for_prediction is the length of the history.
C26_PredictionIffHistory ==
    PredictReturned =>
        /\ PredictArgs.history = << >> => Predicted = None
        /\ PredictArgs.history # << >> =>
              /\ Predicted # None
              /\ Predicted[1].days_used_for_prediction = Len(PredictArgs.history)

\* a history of one entry, with no usage and no limit, has got a prediction
C26_Witness ==
    /\ PredictReturned /\ Len(PredictArgs.history) = 1
    /\ PredictArgs.used = 0 /\ PredictArgs.limit = 0
    /\ Predicted # None

\* C27: the confidence level is "low" for a history of 1 or 2 entries, "medium" for
\* 3 to 6 and "high" for 7 or more, whatever used, limit and the date are.
C27_ConfidenceByHistoryLength ==
    (PredictReturned /\ Predicted # None) =>
        LET n == Len(PredictArgs.history) IN
        Predicted[1].confidence_level =
            IF n \in {1, 2} THEN "low" ELSE IF n \in 3 .. 6 THEN "medium" ELSE "high"

\* a history of exactly seven entries has got a prediction of high confidence
C27_Witness ==
    /\ PredictReturned /\ Len(PredictArgs.history) = 7
    /\ Predicted # None /\ Predicted[1].confidence_level = "high"

\* used + (used / d) * (m - d) = used * m / d, rounded to the nearest integer (half up)
ExactPrediction(used, d, m) == (2 * used * m + d) \div (2 * d)

\* C28: for a non-empty history predicted_monthly_requests is
\* round(used + (used / d) * (m - d)) and never below used; predicted_billed_amount
\* is max(0, predicted_monthly_requests - limit) * 0.04, which is 0 exactly when the
\* prediction does not exceed limit.
C28_PredictionFormula ==
    (PredictReturned /\ Predicted # None) =>
        LET requests == Predicted[1].predicted_monthly_requests
            billed == Predicted[1].predicted_billed_amount
        IN  /\ requests = ExactPrediction(PredictArgs.used, PredictArgs.day,
                                          PredictArgs.days_in_month)
            /\ requests >= PredictArgs.used
            /\ billed.requests = IF requests > PredictArgs.limit
                                 THEN requests - PredictArgs.limit ELSE 0
            /\ billed.cents_each = PricePerRequestCents
            /\ (billed.requests * billed.cents_each = 0) <=> (requests <= PredictArgs.limit)

\* a render_text call has returned; its arguments and its image
RenderReturned == ret.fn = "render_text"
RenderArgs == ret.arg
Rendered == ret.arg.image

\* the text without the characters that are not decimal digits
RECURSIVE DigitsOnly(_)
DigitsOnly(text) ==
    IF text = << >> THEN << >>
    ELSE (IF Head(text) \in { DigitChars[d] : d \in 1 .. 10 } THEN << Head(text) >> ELSE << >>)
         \o DigitsOnly(Tail(text))

\* the pixel (px, py) lies in the box of a glyph of the text, placed where the pen
\* is when its digit is drawn
RECURSIVE Covered(_, _, _, _, _, _)
Covered(atlas, digits, size_px, pen_x, px, py) ==
    IF digits = << >> THEN FALSE
    ELSE LET glyph == atlas[CHOOSE d \in 0 .. 9 : DigitChars[d + 1] = Head(digits)]
             left == pen_x + glyph.xmin
             top == (size_px - 3) - glyph.ymin - glyph.height
         IN  \/ /\ px \in left .. left + glyph.width - 1
                /\ py \in top .. top + glyph.height - 1
             \/ Covered(atlas, Tail(digits), size_px, pen_x + glyph.advance, px, py)

\* C29: render_text ignores every character that is not a decimal digit: the image is
\* the one rendered for the text with those characters removed, so a text without
\* digits gives a size_px by size_px image of zero bytes; glyph pixels outside the
\* canvas are clipped: no byte is written outside the buffer, and a byte is non-zero
\* only at a pixel inside the box of a glyph of the text.
C29_RenderIgnoresNonDigits ==
    RenderReturned =>
        LET digits == DigitsOnly(RenderArgs.text)
            size_px == RenderArgs.size_px
        IN  /\ ret.ok
            /\ Rendered = render_text(RenderArgs.atlas, digits, size_px)
            /\ Rendered.width = size_px /\ Rendered.height = size_px
            /\ Len(Rendered.rgba) = size_px * size_px * BytesPerPixel
            /\ digits = << >> => \A i \in 1 .. Len(Rendered.rgba) : Rendered.rgba[i] = 0
            /\ \A i \in 1 .. Len(Rendered.rgba) :
                 Rendered.rgba[i] # 0 =>
                    Covered(RenderArgs.atlas, digits, size_px, 1,
                            ((i - 1) \div BytesPerPixel) % size_px,
                            ((i - 1) \div BytesPerPixel) \div size_px)

\* a text that mixes digits with other characters has been rendered on a canvas that
\* holds only part of its glyphs: some pixel is drawn and the last glyph starts
\* right of the canvas
C29_Witness ==
    /\ RenderReturned
    /\ RenderArgs.text = << "1", "%", "1" >> /\ RenderArgs.size_px = 3
    /\ RenderArgs.atlas[1].xmin = 0 /\ RenderArgs.atlas[1].ymin = -2
    /\ \E i \in 1 .. Len(Rendered.rgba) : Rendered.rgba[i] # 0
    /\ \E i \in 1 .. Len(Rendered.rgba) : Rendered.rgba[i] = 0

\* C15: when the disk write fails the in-memory value stays: after a failed
\* update_settings the settings read are the updated ones, and a set_usage_history
\* whose write fails returns normally with the in-memory history still the new list.
C15_MemoryKeptOnWriteFailure ==
    [][/\ (ret'.fn = "update_settings" /\ ~ret'.wrote) => settings' = ret'.arg
       /\ \A c \in Callers :
            (scPc[c] = "hist_write" /\ scPc'[c] = "idle" /\ ~ret'.wrote) =>
               /\ ret'.fn = "set_usage_history" /\ ret'.ok
               /\ usage_history' = scArg[c]
               /\ usage_history' = usage_history]_vars

\* an update_settings call has just failed to write settings that differ from the
\* file's, after a set_usage_history whose write of a non-empty list failed
C15_Witness ==
    /\ ret.fn = "update_settings" /\ ~ret.wrote
    /\ settings_file # Some(settings) /\ settings # DefaultSettings
    /\ \A c \in Callers : scPc[c] = "idle"
    /\ usage_history # << >> /\ FileHistory # usage_history

\* C39: the settings in memory and the settings file change only in an
\* update_settings call, both in the same step (one critical section): memory becomes
\* the updated object, whole, and when the write succeeds the file holds that same
\* object; so whenever the last update_settings call succeeded the file equals the
\* in-memory settings, whatever other calls on the Store are in progress.
C39_SettingsFileEqualsMemory ==
    [][/\ (ret'.fn = "update_settings" /\ ret'.ok) => settings_file' = Some(settings')
       /\ (settings' # settings \/ settings_file' # settings_file) =>
              /\ ret'.fn = "update_settings" /\ settings' = ret'.arg
              /\ settings_file' \in {settings_file, Some(settings')}]_vars

\* an update_settings call has succeeded with settings that are not the defaults,
\* while a set_usage_history call is between its replacement and its write
C39_Witness ==
    /\ ret.fn = "update_settings" /\ ret.ok
    /\ settings # DefaultSettings /\ settings_file = Some(settings)
    /\ \E c \in Callers : scPc[c] = "hist_write"

\* reset_settings returns Ok
ResetReturnsOk(c) == scPc[c] = "reset_file" /\ scPc'[c] = "idle" /\ ret'.ok

SettingsFileCorrupt == settings_file # None /\ ~ParsesAsSettings(settings_file[1])

\* C14: StoreManager::new succeeds with the default settings when the settings file
\* is corrupt; with the settings file absent it yields the default settings, with the
\* history file absent the empty history, and with both absent it succeeds.
C14_LoadFallsBackToDefaults ==
    \A c \in SeqCallers :
        /\ (scPc[c] # "new" /\ SettingsFileCorrupt) =>
               (scPc[c] = "idle" /\ settings = DefaultSettings)
        /\ (scPc[c] = "idle" /\ settings_file = None) => settings = DefaultSettings
        /\ (scPc[c] = "idle" /\ history_file = None) => usage_history = << >>
        /\ (scPc[c] # "new" /\ settings_file = None /\ history_file = None) =>
               scPc[c] = "idle"

-----------------------------------------------------------------------------
\* everything but the two files and the construction of the Store
InitRest ==
    /\ is_shutting_down = FALSE
    /\ cancel_tx = None
    /\ last_restart = 0
    /\ last_interval = 0
    /\ now = 0
    /\ thrPc = [t \in Threads |-> "idle"]
    /\ thrArg = [t \in Threads |-> 0]
    /\ thrOp = [t \in Threads |-> "none"]
    /\ loopPc = [l \in Loops |-> "unspawned"]
    /\ loopInterval = [l \in Loops |-> 0]
    /\ cancelBuf = [l \in Loops |-> 0]
    /\ cancelTxAlive = [l \in Loops |-> FALSE]
    /\ tickDue = [l \in Loops |-> FALSE]
    /\ settings = DefaultSettings
    /\ usage_cache = None
    /\ usage_history = << >>
    /\ scArg = [c \in Callers |-> << >>]
    /\ ret = NoOutcome
    /\ HIDDEN_WEBVIEW_EVENTS = None
    /\ slotLock = None
    /\ chan = [a \in Attempts |-> << >>]
    /\ hiddenWindow = None
    /\ attPc = [a \in Attempts |-> "idle"]
    /\ attAcc = [a \in Attempts |-> EmptyAcc]
    /\ attExit = [a \in Attempts |-> "none"]
    /\ attResult = [a \in Attempts |-> NoResult]
    /\ pushPc = [p \in Pushers |-> "idle"]
    /\ pushEv = [p \in Pushers |-> None]

\* the Store constructed in a directory that holds neither file
InitBase ==
    /\ InitRest
    /\ settings_file = None
    /\ history_file = None
    /\ scPc = [c \in Callers |-> "idle"]

Init ==
    /\ InitBase
    /\ flood = FALSE
    /\ pushBudget = MaxPushes

\* the extraction is explored twice: with the script's events, and with a flood of
\* events long enough to fill a channel
InitExtract ==
    /\ InitBase
    /\ flood \in BOOLEAN
    /\ pushBudget = IF flood THEN FloodPushes ELSE MaxPushes

\* the process starts in a directory that holds any of the files; StoreManager::new
\* has yet to run
InitLoad ==
    /\ InitRest
    /\ flood = FALSE
    /\ pushBudget = MaxPushes
    /\ settings_file \in SettingsFiles
    /\ history_file \in HistoryFiles
    /\ scPc = [c \in Callers |-> IF c \in SeqCallers THEN "new" ELSE "idle"]

NextLoad == \E c \in SeqCallers, io \in BOOLEAN : StoreManagerNew(c, io)

SpecLoad == InitLoad /\ [][NextLoad]_vars

\* the Scheduler, with the login and logout that change what a tick sees (their
\* writes to the settings file succeed; SpecStore explores the failing writes)
NextPolling ==
    \/ \E t \in Threads, v \in RefreshValues : RestartCheckShutdown(t, v)
    \/ \E t \in Threads : RestartDebounce(t)
    \/ \E t \in Threads : RestartSpawn(t)
    \/ \E t \in Threads : StopSetFlag(t)
    \/ \E t \in Threads : StopCancel(t)
    \/ \E t \in Threads : LogoutClearAuth(t, TRUE)
    \/ \E id \in CustomerIds : AuthSetCustomerId(id, TRUE)
    \/ Tick
    \/ \E l \in Loops : LoopFirstTick(l)
    \/ \E l \in Loops : IntervalElapse(l)
    \/ \E l \in Loops : LoopTick(l)
    \/ \E l \in Loops : LoopFetchReturn(l)
    \/ \E l \in Loops : LoopCancelled(l)

SpecPolling == Init /\ [][NextPolling]_vars

\* the Store and the commands that drive it, issued by one caller and one thread
\* (the atomic commands interleave with the steps of the multi-step ones)
NextStore ==
    \/ \E s \in SettingsInputs, io \in BOOLEAN : CmdUpdateSettings(s, io)
    \/ \E id \in CustomerIds, io \in BOOLEAN : AuthSetCustomerId(id, io)
    \/ \E u \in UsedValues, io \in BOOLEAN : SetUsage(u, DefaultUsageLimit, io)
    \/ \E cache \in CacheInputs : SetUsageCache(cache)
    \/ \E c \in SeqCallers, rows \in [1 .. 1 -> Rows], nowTs \in NowValues :
          StoreExtractedHistory(c, rows, nowTs)
    \/ \E c \in SeqCallers : ClearUsageHistory(c)
    \/ \E c \in SeqCallers, io \in BOOLEAN : SetUsageHistoryWrite(c, io)
    \/ \E c \in SeqCallers, io \in BOOLEAN : ResetSettingsUpdate(c, io)
    \/ \E c \in SeqCallers : ResetClearCache(c)
    \/ \E c \in SeqCallers : ResetClearHistory(c)
    \/ \E c \in SeqCallers, io \in BOOLEAN : ResetDeleteFile(c, io)
    \/ \E t \in SeqThreads, io \in BOOLEAN : LogoutClearAuth(t, io)
    \/ \E t \in SeqThreads : thrPc[t] = "l_stop" /\ StopSetFlag(t)
    \/ \E t \in SeqThreads : StopCancel(t)

SpecStore == Init /\ [][NextStore]_vars

\* no multi-step call of the Store is in progress
StoreQuiet == \A c \in Callers : scPc[c] = "idle"

\* the Store's operations called one after the other
NextStoreSeq ==
    \/ \E s \in SettingsInputs, io \in BOOLEAN : StoreQuiet /\ CmdUpdateSettings(s, io)
    \/ \E id \in CustomerIds, io \in BOOLEAN : StoreQuiet /\ AuthSetCustomerId(id, io)
    \/ \E u \in UsedValues, io \in BOOLEAN : StoreQuiet /\ SetUsage(u, DefaultUsageLimit, io)
    \/ \E cache \in CacheInputs : StoreQuiet /\ SetUsageCache(cache)
    \/ \E c \in SeqCallers, rows \in RowInputs, nowTs \in NowValues :
          StoreExtractedHistory(c, rows, nowTs)
    \/ \E c \in SeqCallers, io \in BOOLEAN : SetUsageHistoryWrite(c, io)
    \/ \E c \in SeqCallers, io \in BOOLEAN : ResetSettingsUpdate(c, io)
    \/ \E c \in SeqCallers : ResetClearCache(c)
    \/ \E c \in SeqCallers : ResetClearHistory(c)
    \/ \E c \in SeqCallers, io \in BOOLEAN : ResetDeleteFile(c, io)

SpecStoreSeq == Init /\ [][NextStoreSeq]_vars

\* fetch_usage calls made one after the other, each storing what its extraction returned
NextFetch ==
    \/ \E c \in SeqCallers, r \in ResultInputs, io \in BOOLEAN : FetchUsageResult(c, r, io)
    \/ \E c \in SeqCallers, io \in BOOLEAN : FetchSetUsage(c, io)
    \/ \E c \in SeqCallers : FetchSetCache(c)
    \/ \E c \in SeqCallers, nowTs \in NowValues : FetchSetHistory(c, nowTs)
    \/ \E c \in SeqCallers, io \in BOOLEAN : SetUsageHistoryWrite(c, io)

SpecFetch == Init /\ [][NextFetch]_vars

\* the snapshots: fetches whose extraction fails (the cached figures are returned) or
\* yields figures and no table (they are stored, and their summary returned)
SnapshotResults ==
    {NoResult} \cup
    { ExtractionResult(TRUE, Some(i), Some(u), None, None) :
        i \in CustomerIds, u \in FigureCards }

NextSnapshot ==
    \/ \E c \in SeqCallers, r \in SnapshotResults : FetchUsageResult(c, r, TRUE)
    \/ \E c \in SeqCallers : FetchSetUsage(c, TRUE)
    \/ \E c \in SeqCallers : FetchSetCache(c)
    \/ \E c \in SeqCallers, nowTs \in NowValues : FetchSetHistory(c, nowTs)

SpecSnapshot == Init /\ [][NextSnapshot]_vars

\* the prediction, applied once to every history, usage, limit and date
NextPredict ==
    /\ ret.fn # "predict_usage_from_history"
    /\ \E history \in PredictHistories, used \in PredictUsed, limit \in PredictLimits,
          date \in PredictDates : PredictUsage(history, used, limit, date)

SpecPredict == Init /\ [][NextPredict]_vars

\* the renderer, applied once to every atlas, text and canvas size
NextRender ==
    /\ ret.fn # "render_text"
    /\ \E atlas \in AtlasInputs, text \in TextInputs, size_px \in 1 .. MaxCanvas :
          RenderText(atlas, text, size_px)

SpecRender == Init /\ [][NextRender]_vars

\* concurrent callers of the history operations
NextHistory ==
    \/ \E c \in Callers, rows \in RowInputs, nowTs \in NowValues :
          StoreExtractedHistory(c, rows, nowTs)
    \/ \E c \in Callers : ClearUsageHistory(c)
    \/ \E c \in Callers, e \in EntryInputs : AddUsageEntryGet(c, e)
    \/ \E c \in Callers : AddUsageEntrySet(c)
    \/ \E c \in Callers, io \in BOOLEAN : SetUsageHistoryWrite(c, io)

SpecHistory == Init /\ [][NextHistory]_vars

\* the usage-history operations when every write to the history file succeeds
NextHistoryNoFault ==
    \/ \E c \in Callers, rows \in RowInputs, nowTs \in NowValues :
          StoreExtractedHistory(c, rows, nowTs)
    \/ \E c \in Callers : ClearUsageHistory(c)
    \/ \E c \in Callers : SetUsageHistoryWrite(c, TRUE)

SpecHistoryNoFault == Init /\ [][NextHistoryNoFault]_vars

\* extraction attempts and the invocations of hidden_webview_event
NextExtract ==
    \/ \E a \in Attempts : Install(a)
    \/ \E a \in Attempts, built \in BOOLEAN : CreateWebview(a, built)
    \/ \E a \in Attempts : RecvEvent(a)
    \/ \E a \in Attempts : RecvClosed(a)
    \/ \E a \in Attempts : Timeout(a)
    \/ \E a \in Attempts : Teardown(a)
    \/ \E p \in Pushers, ev \in PushInputs : hidden_webview_event(p, ev)
    \/ \E p \in Pushers : SendResume(p)

SpecExtract == InitExtract /\ [][NextExtract]_vars

\* the injected script, run once on every page
NextScript ==
    /\ ret.fn # "runExtraction"
    /\ \E tauri \in BOOLEAN, api \in ApiAnswers, dom \in DomAnswers, html \in HtmlAnswers,
          card \in UsageAnswers, table \in UsageAnswers :
          RunExtraction(tauri, api, dom, html, card, table)

SpecScript == Init /\ [][NextScript]_vars

\* one attempt, fed every kind of event, well-formed or not
NextEvents ==
    \/ \E a \in SeqAttempts : Install(a)
    \/ \E a \in SeqAttempts, built \in BOOLEAN : CreateWebview(a, built)
    \/ \E a \in SeqAttempts : RecvEvent(a)
    \/ \E a \in SeqAttempts : Timeout(a)
    \/ \E a \in SeqAttempts : Teardown(a)
    \/ \E p \in Pushers, ev \in EventInputs : hidden_webview_event(p, ev)

SpecEvents == Init /\ [][NextEvents]_vars

\* a logout or a reset while a fetch of the polling loop is in flight: the loop
\* fetches only while the Store is authenticated (usage.rs lines 253-259), the script
\* reports to the attempt, fetch_usage stores what the attempt returned; the user
\* logs in, logs out and resets at any moment; the disk does not fail
NextLogout ==
    \/ \E id \in CustomerIds : ~is_authenticated /\ AuthSetCustomerId(id, TRUE)
    \/ \E a \in SeqAttempts : is_authenticated /\ Install(a)
    \/ \E a \in SeqAttempts : CreateWebview(a, TRUE)
    \/ \E a \in SeqAttempts : RecvEvent(a)
    \/ \E a \in SeqAttempts : Timeout(a)
    \/ \E a \in SeqAttempts : Teardown(a)
    \/ \E p \in Pushers, ev \in ScriptEvents : hidden_webview_event(p, ev)
    \/ \E c \in SeqCallers, a \in SeqAttempts : FetchUsageOfAttempt(c, a, TRUE)
    \/ \E c \in SeqCallers : FetchSetUsage(c, TRUE)
    \/ \E c \in SeqCallers : FetchSetCache(c)
    \/ \E c \in SeqCallers, nowTs \in NowValues : FetchSetHistory(c, nowTs)
    \/ \E c \in SeqCallers : SetUsageHistoryWrite(c, TRUE)
    \/ \E t \in SeqThreads : LogoutClearAuth(t, TRUE)
    \/ \E t \in SeqThreads : thrPc[t] = "l_stop" /\ StopSetFlag(t)
    \/ \E t \in SeqThreads : StopCancel(t)
    \/ \E c \in Callers \ SeqCallers : ResetSettingsUpdate(c, TRUE)
    \/ \E c \in Callers \ SeqCallers : ResetClearCache(c)
    \/ \E c \in Callers \ SeqCallers : ResetClearHistory(c)
    \/ \E c \in Callers \ SeqCallers : ResetDeleteFile(c, TRUE)

SpecLogout == Init /\ [][NextLogout]_vars

\* a polling loop whose fetch runs an extraction attempt, while restart_polling and
\* stop_polling cancel it and the hidden window floods the bridge. One fetch is
\* followed to its end: the loop that ticks first starts the attempt (usage.rs line
\* 259, auth.rs line 788) and goes on when the attempt has returned
InitCancel ==
    /\ InitBase
    /\ flood = TRUE
    /\ pushBudget = FloodPushes

\* the tick of loop l; it fetches if no fetch has been started yet
LoopTickFetchOnce(l) ==
    /\ is_authenticated =>
          /\ \A a \in SeqAttempts : attPc[a] = "idle"
          /\ \A m \in Loops : loopPc[m] # "fetching"
    /\ LoopTick(l)

\* the fetch of the loop starts its attempt
FetchInstall(a) ==
    /\ \E l \in Loops : loopPc[l] = "fetching"
    /\ Install(a)

\* the fetch of loop l returns once its attempt has
LoopFetchReturnOfAttempt(l) ==
    /\ \A a \in SeqAttempts : attPc[a] = "done"
    /\ LoopFetchReturn(l)

\* an event of a name the receive loop does not know
OtherEvent == HiddenWebviewEvent("other", EmptyPayload)

NextCancel ==
    \/ \E id \in CustomerIds : ~is_authenticated /\ AuthSetCustomerId(id, TRUE)
    \/ \E t \in SeqThreads, v \in RefreshValues : RestartCheckShutdown(t, v)
    \/ \E t \in SeqThreads : RestartDebounce(t)
    \/ \E t \in SeqThreads : RestartSpawn(t)
    \/ \E t \in SeqThreads : StopSetFlag(t)
    \/ \E t \in SeqThreads : StopCancel(t)
    \/ \E l \in Loops : LoopFirstTick(l)
    \/ \E l \in Loops : IntervalElapse(l)
    \/ \E l \in Loops : LoopTickFetchOnce(l)
    \/ \E l \in Loops : LoopFetchReturnOfAttempt(l)
    \/ \E l \in Loops : LoopCancelled(l)
    \/ \E a \in SeqAttempts : FetchInstall(a)
    \/ \E a \in SeqAttempts : CreateWebview(a, TRUE)
    \/ \E a \in SeqAttempts : RecvEvent(a)
    \/ \E a \in SeqAttempts : Timeout(a)
    \/ \E a \in SeqAttempts : Teardown(a)
    \/ \E p \in Pushers : hidden_webview_event(p, OtherEvent)
    \/ \E p \in Pushers : SendResume(p)

\* every task and every command that can take a step does so in the end: the tokio
\* runtime polls every task that is ready, the 30 s deadline of the receive loop and
\* the periods of the interval expire, and select! picks among its ready branches at
\* random, so that a cancellation that is ready each time the loop is back in
\* select! is taken in the end (strong fairness)
FairCancel ==
    /\ \A t \in SeqThreads : WF_vars(RestartDebounce(t) \/ RestartSpawn(t) \/ StopCancel(t))
    /\ \A l \in Loops : WF_vars(LoopFirstTick(l))
    /\ \A l \in Loops : WF_vars(LoopFetchReturnOfAttempt(l))
    /\ \A l \in Loops : SF_vars(LoopCancelled(l))
    /\ \A a \in SeqAttempts : WF_vars(FetchInstall(a))
    /\ \A a \in SeqAttempts : WF_vars(CreateWebview(a, TRUE))
    /\ \A a \in SeqAttempts : WF_vars(Timeout(a))
    /\ \A a \in SeqAttempts : WF_vars(Teardown(a))
    /\ \A p \in Pushers : WF_vars(SendResume(p))

SpecCancel == InitCancel /\ [][NextCancel]_vars /\ FairCancel

=============================================================================
